---- MODULE Spec2Model ----
(***************************************************************************)
(* A model of gemini-tales: the course pipeline of the orchestrator        *)
(* (Researcher -> Judge -> EscalationChecker loop, then the Builder), the  *)
(* chat_stream event transcoder, and the two WebSocket relays (/ws/proxy   *)
(* and /ws/narrator).                                                      *)
(*                                                                         *)
(* Each subsystem has its own specification (SpecPipeline, SpecTranscoder, *)
(* SpecProxy, SpecNarrator, SpecClients; SpecRelay is one connection of    *)
(* either relay); the variables of the other subsystems stay at their      *)
(* initial values.                                                         *)
(***************************************************************************)
EXTENDS Integers, Sequences, FiniteSets, TLC

VARIABLES
    \* ---- pipeline (backend/agents/orchestrator/agent.py)
    session_events,   \* ctx.session.events: the session's append-only event log
    state,            \* ctx.session.state: key -> captured value
    pl_pc,            \* the sub-agent the pipeline is running, or "done"
    times_looped,     \* LoopAgent's count of finished iterations
    emitted,          \* number of events the remote stages emitted in this run
    invoked,          \* history: the stage invocations of this run, in order
    pl_log,           \* history: starts and ends of stages, state writes and reads, in order
    \* ---- transcoder (app/main.py chat_stream.event_generator)
    t_pc,             \* "idle", "streaming", "done" or "error" (the source raised)
    response_is_error, \* event_source.response.is_error of the run_sse request
    t_events,         \* the events the event source has yielded so far
    final_text,       \* the accumulator
    rendered_content, \* the captured markup
    out,              \* the records yielded to the client, in order
    contrib,          \* history: the parts appended to final_text, with their origin
    \* ---- proxy relay (app/main.py gemini_live_proxy)
    p_pc,             \* "idle", "await_init", "connecting", "relaying" or "closed"
    p_close,          \* the close frame the proxy sent to the client, or NoClose
    p_first,          \* what the wait for the first message produced (setup_data), or NoMsg
    p_gcp,            \* what generate_gcp_token returned, "unasked" if it was not called
    p_token_calls,    \* calls of generate_gcp_token
    p_connects,       \* calls of websockets.connect
    p_upstream,       \* server_websocket: "none", "open" or "closed"
    p_c2s,            \* task client_to_server: "none", "running", "done", "cancelled"
    p_s2c,            \* task server_to_client: likewise
    p_c2s_msg,        \* the message client_to_server holds between receive and send
    p_s2c_msg,        \* the message server_to_client holds between receive and send
    p_client_gone,    \* the client has disconnected
    p_upstream_gone,  \* the upstream peer has closed the connection
    p_from_client,    \* history: frames read from the client, in order
    p_to_upstream,    \* history: messages sent upstream, in order
    p_from_upstream,  \* history: frames read from upstream, in order
    p_to_client,      \* history: text frames sent to the client, in order
    p_acc,            \* history: the channel operations of the handler and the pump tasks
    \* ---- narrator relay (app/narrator.py narrator_ws_endpoint)
    n_pc,             \* "idle", "await_init", "connecting", "relaying" or "closed"
    n_end,            \* how the handler ended: "none", "close", "return" or "raise"
    n_close,          \* the close frame the handler sent to the browser, or NoClose
    n_first,          \* what the wait for the init message produced (msg), or NoMsg
    n_session,        \* the Gemini Live session: "none", "open" or "closed"
    n_connects,       \* calls of client.aio.live.connect
    n_send,           \* send_loop: "none", "running" or "done"
    n_recv,           \* recv_loop: likewise
    n_client_gone,    \* the browser has disconnected
    n_upstream_gone,  \* the live session has failed on the upstream side
    n_from_client,    \* history: messages read from the browser by send_loop
    n_to_upstream,    \* history: inputs forwarded to the live session
    n_from_upstream,  \* history: responses read from the live session
    n_to_client,      \* history: records sent to the browser
    n_acc,            \* history: the channel operations of the handler and the loops
    \* ---- client cache (app/main.py get_client)
    clients,          \* the module-level dict: origin -> client handle
    created,          \* history: the origins create_authenticated_client was called for, in order
    c_req             \* per request: the helper it is in, its position, its origin, the handles it got

pl_vars == <<session_events, state, pl_pc, times_looped, emitted, invoked, pl_log>>

t_vars == <<t_pc, response_is_error, t_events, final_text, rendered_content, out, contrib>>

p_vars == <<p_pc, p_close, p_first, p_gcp, p_token_calls, p_connects, p_upstream, p_c2s, p_s2c,
            p_c2s_msg, p_s2c_msg, p_client_gone, p_upstream_gone,
            p_from_client, p_to_upstream, p_from_upstream, p_to_client, p_acc>>

n_vars == <<n_pc, n_end, n_close, n_first, n_session, n_connects, n_send, n_recv, n_client_gone,
            n_upstream_gone, n_from_client, n_to_upstream, n_from_upstream, n_to_client,
            n_acc>>

c_vars == <<clients, created, c_req>>

vars == <<pl_vars, t_vars, p_vars, n_vars, c_vars>>

\* The variables each subsystem leaves alone.
pl_others == <<t_vars, p_vars, n_vars, c_vars>>

t_others == <<pl_vars, p_vars, n_vars, c_vars>>

p_others == <<pl_vars, t_vars, n_vars, c_vars>>

n_others == <<pl_vars, t_vars, p_vars, c_vars>>

c_others == <<pl_vars, t_vars, p_vars, n_vars>>

(***************************************************************************)
(* Text.  A text is a sequence of lexical tokens; whitespace, braces and   *)
(* quoted JSON strings are tokens of their own, so that strip, startswith  *)
(* and the substring test act on it as Python's do on the characters.      *)
(***************************************************************************)
QStatus == "\"status\""
QPass == "\"pass\""
QFail == "\"fail\""
QFeedback == "\"feedback\""
QOk == "\"ok\""

StringTokens == {QStatus, QPass, QFail, QFeedback, QOk}

IsSpace(c) == c \in {" ", "\n"}

RECURSIVE lstrip(_)
lstrip(s) ==
    IF s = <<>> THEN <<>>
    ELSE IF IsSpace(Head(s)) THEN lstrip(Tail(s)) ELSE s

RECURSIVE rstrip(_)
rstrip(s) ==
    IF s = <<>> THEN <<>>
    ELSE IF IsSpace(s[Len(s)]) THEN rstrip(SubSeq(s, 1, Len(s) - 1)) ELSE s

\* str.strip()
strip(s) == rstrip(lstrip(s))

\* str.startswith(p)
startswith(s, p) == Len(s) >= Len(p) /\ SubSeq(s, 1, Len(p)) = p

\* p in s
contains(s, p) == \E i \in 0..(Len(s) - Len(p)) : SubSeq(s, i + 1, i + Len(p)) = p

(***************************************************************************)
(* json.loads on the token language: an object of string members, with     *)
(* whitespace allowed between the tokens.  JsonError stands for            *)
(* json.JSONDecodeError.                                                   *)
(***************************************************************************)
JsonError == [kind |-> "error"]

JsonDict(items) == [kind |-> "dict", items |-> items]

RECURSIVE ParseMembers(_)
ParseMembers(m) ==
    IF m = <<>> THEN JsonDict(<<>>)
    ELSE IF Len(m) >= 3 /\ m[1] \in StringTokens /\ m[2] = ":" /\ m[3] \in StringTokens
    THEN IF Len(m) = 3 THEN JsonDict(<<<<m[1], m[3]>>>>)
         ELSE IF m[4] = "," /\ Len(m) > 4
         THEN LET rest == ParseMembers(SubSeq(m, 5, Len(m)))
              IN IF rest = JsonError \/ rest.items = <<>> THEN JsonError
                 ELSE JsonDict(<<<<m[1], m[3]>>>> \o rest.items)
         ELSE JsonError
    ELSE JsonError

JsonLoads(text) ==
    LET t == SelectSeq(text, LAMBDA c : ~IsSpace(c))
    IN IF Len(t) >= 2 /\ t[1] = "{" /\ t[Len(t)] = "}"
       THEN ParseMembers(SubSeq(t, 2, Len(t) - 1))
       ELSE JsonError

\* dict.get(key): the value of the last member with that key, or "None"
RECURSIVE DictGet(_, _)
DictGet(items, key) ==
    IF items = <<>> THEN "None"
    ELSE IF items[Len(items)][1] = key THEN items[Len(items)][2]
    ELSE DictGet(SubSeq(items, 1, Len(items) - 1), key)

(***************************************************************************)
(* Pipeline: events, stage outputs and the session state.                  *)
(***************************************************************************)
\* LoopAgent(max_iterations=3)
max_iterations == 3

\* root_agent = SequentialAgent(name="course_creation_pipeline", ...)
root_agent_name == "course_creation_pipeline"

\* Bound: events emitted by the remote stages during one run.
MaxEmitted == 2

\* An event of the session log.  parts is content.parts (<<>>: no content);
\* a part is its text (NoText: a part whose text is None or "").  escalate is
\* actions.escalate.  iter is history: the loop iteration in which the event
\* was appended (0: left in the session by an earlier run).
NoText == <<>>

Event(author, parts, escalate, iter) ==
    [author |-> author, parts |-> parts, escalate |-> escalate, iter |-> iter]

PassJson == <<"{", QStatus, ":", " ", QPass, ",", " ", QFeedback, ":", " ", QOk, "}">>
FailJson == <<"{", QStatus, ":", " ", QFail, ",", " ", QFeedback, ":", " ", QOk, "}">>
FencedPass == <<"FENCE", "\n", "{", QStatus, ":", " ", QPass, "}", "\n", "FENCE">>
TruncatedPass == <<"{", QStatus, ":", " ", QPass, ",">>
OtherStatusJson == <<"{", QStatus, ":", " ", QOk, "}">>
NoStatusJson == <<"{", QFeedback, ":", " ", QPass, "}">>
Prose == <<"looks", " ", "fine">>
Findings == <<"findings">>
Story == <<"#", " ", "Title">>

\* What one stage may put into content.parts of an event it emits.
StageParts(agent) ==
    CASE agent = "researcher" -> {<<Findings>>, <<NoText>>}
      [] agent = "judge" -> {<<PassJson>>, <<FailJson>>, <<FencedPass>>, <<TruncatedPass>>,
                             <<OtherStatusJson>>, <<NoStatusJson>>,
                             <<Prose>>, <<NoText>>, <<NoText, PassJson>>, <<>>}
      [] agent = "content_builder" -> {<<Story>>}

\* A value of the state store.
StrValue(text) == [kind |-> "str", text |-> text]

NoState == [k \in {} |-> StrValue(NoText)]

\* The session a run starts with: a new one (create_session), or the session
\* of an earlier run (get_session) whose judge passed.
PriorSessions ==
    { [events |-> <<>>, state |-> NoState],
      [events |-> << Event("researcher", <<Findings>>, FALSE, 0),
                     Event("judge", <<PassJson>>, FALSE, 0),
                     Event("escalation_checker", <<>>, TRUE, 0),
                     Event("content_builder", <<Story>>, FALSE, 0) >>,
       state |-> [k \in {"research_findings", "judge_feedback"} |->
                    IF k = "judge_feedback" THEN JsonLoads(PassJson)
                    ELSE StrValue(Findings)]] }

\* state[key] = value
SetItem(st, key, value) ==
    [k \in DOMAIN st \cup {key} |-> IF k = key THEN value ELSE st[k]]

\* Mutant: a text that fails to parse is not kept.
SavedValue_EmptyOnError(key, text) ==
    IF key = "judge_feedback" /\ startswith(strip(text), <<"{">>)
    THEN LET v == JsonLoads(text) IN IF v = JsonError THEN StrValue(NoText) ELSE v
    ELSE StrValue(text)

\* The value create_save_output_callback(key) stores for a text.
SavedValue(key, text) ==
    IF key = "judge_feedback" /\ startswith(strip(text), <<"{">>)
    THEN LET v == JsonLoads(text) IN IF v = JsonError THEN StrValue(text) ELSE v
    ELSE StrValue(text)

\* event.content and event.content.parts, then event.content.parts[0].text
FirstText(parts) == IF parts = <<>> THEN NoText ELSE parts[1]

\* The scan of the callback: the text of parts[0] of the most recent event of
\* this agent that has content parts and whose parts[0] has text; NoText if
\* the scan ends without one.
RECURSIVE CapturedText(_, _)
CapturedText(agent_name, events) ==
    IF events = <<>> THEN NoText
    ELSE LET event == events[Len(events)]
         IN IF event.author = agent_name /\ FirstText(event.parts) # NoText
            THEN FirstText(event.parts)
            ELSE CapturedText(agent_name, SubSeq(events, 1, Len(events) - 1))

\* create_save_output_callback(key).callback: the state after it.
SaveOutput(key, agent_name, events, st) ==
    LET text == CapturedText(agent_name, events)
    IN IF text = NoText THEN st ELSE SetItem(st, key, SavedValue(key, text))

\* The key the after_agent_callback of an agent saves to ("" if it has none).
OutputKey(agent) ==
    CASE agent = "researcher" -> "research_findings"
      [] agent = "judge" -> "judge_feedback"
      [] OTHER -> ""

\* history: an entry of pl_log
LogEntry(op, agent, key, iter) == [op |-> op, agent |-> agent, key |-> key, iter |-> iter]

\* history: what the completion of a stage adds to pl_log: the write of its
\* callback if the scan found a text, and the end of the stage.
CompletionLog(agent, events, iter) ==
    (IF OutputKey(agent) # "" /\ CapturedText(agent, events) # NoText
     THEN <<LogEntry("write", agent, OutputKey(agent), iter)>> ELSE <<>>)
    \o <<LogEntry("end", agent, "", iter)>>

\* Mutant: the Builder has a save callback too.
AfterAgentCallback_BuilderSaves(agent, events, st) ==
    CASE agent = "researcher" -> SaveOutput("research_findings", agent, events, st)
      [] agent = "judge" -> SaveOutput("judge_feedback", agent, events, st)
      [] OTHER -> SaveOutput("course", agent, events, st)

\* after_agent_callback of each remote agent
AfterAgentCallback(agent, events, st) ==
    CASE agent = "researcher" -> SaveOutput("research_findings", agent, events, st)
      [] agent = "judge" -> SaveOutput("judge_feedback", agent, events, st)
      [] OTHER -> st

\* EscalationChecker._run_async_impl: is_pass
PassMarker == <<QStatus, ":", " ", QPass>>

\* Mutant: any structured feedback counts as a pass.
IsPass_AnyDict(st) ==
    IF "judge_feedback" \notin DOMAIN st THEN FALSE
    ELSE LET feedback == st["judge_feedback"]
         IN feedback.kind = "dict" \/ contains(feedback.text, PassMarker)

\* Mutant: the string fallback is missing.
IsPass_NoFallback(st) ==
    IF "judge_feedback" \notin DOMAIN st THEN FALSE
    ELSE LET feedback == st["judge_feedback"]
         IN feedback.kind = "dict" /\ DictGet(feedback.items, QStatus) = QPass

IsPass(st) ==
    IF "judge_feedback" \notin DOMAIN st THEN FALSE
    ELSE LET feedback == st["judge_feedback"]
         IN IF feedback.kind = "dict" THEN DictGet(feedback.items, QStatus) = QPass
            ELSE feedback.kind = "str" /\ contains(feedback.text, PassMarker)

\* The iteration a stage invoked now belongs to.
CurrentIter == times_looped + 1

\* Mutant: the checker runs right after the Researcher.
NextAgent_SkipsJudge(agent) ==
    CASE agent = "researcher" -> "escalation_checker"
      [] agent = "judge" -> "escalation_checker"
      [] agent = "content_builder" -> "done"

\* SequentialAgent / LoopAgent: the sub-agent that runs after `agent`.
NextAgent(agent) ==
    CASE agent = "researcher" -> "judge"
      [] agent = "judge" -> "escalation_checker"
      [] agent = "content_builder" -> "done"

\* Mutant: the iteration budget is off by one.
AfterChecker_OffByOne(escalate, looped) ==
    IF escalate THEN "content_builder"
    ELSE IF looped + 1 <= max_iterations THEN "researcher" ELSE "content_builder"

\* LoopAgent: where control goes after the escalation checker's event.
AfterChecker(escalate, looped) ==
    IF escalate THEN "content_builder"
    ELSE IF looped + 1 < max_iterations THEN "researcher" ELSE "content_builder"

Invocation(agent, iter) == [agent |-> agent, iter |-> iter]

\* No chat stream is being transcoded.
TranscoderIdle ==
    /\ t_pc = "idle"
    /\ response_is_error = FALSE
    /\ t_events = <<>>
    /\ final_text = <<>>
    /\ rendered_content = [t |-> "none"]
    /\ out = <<>>
    /\ contrib = <<>>

NoClose == [code |-> 0, reason |-> "none"]

NoMsg == [kind |-> "none"]

\* No proxy connection is modelled.
ProxyIdle ==
    /\ p_pc = "idle"
    /\ p_close = NoClose
    /\ p_first = NoMsg
    /\ p_gcp = "unasked"
    /\ p_token_calls = 0
    /\ p_connects = 0
    /\ p_upstream = "none"
    /\ p_c2s = "none"
    /\ p_s2c = "none"
    /\ p_c2s_msg = NoMsg
    /\ p_s2c_msg = NoMsg
    /\ p_client_gone = FALSE
    /\ p_upstream_gone = FALSE
    /\ p_from_client = <<>>
    /\ p_to_upstream = <<>>
    /\ p_from_upstream = <<>>
    /\ p_to_client = <<>>
    /\ p_acc = {}

\* No narrator connection is modelled.
NarratorIdle ==
    /\ n_pc = "idle"
    /\ n_end = "none"
    /\ n_close = NoClose
    /\ n_first = NoMsg
    /\ n_session = "none"
    /\ n_connects = 0
    /\ n_send = "none"
    /\ n_recv = "none"
    /\ n_client_gone = FALSE
    /\ n_upstream_gone = FALSE
    /\ n_from_client = <<>>
    /\ n_to_upstream = <<>>
    /\ n_from_upstream = <<>>
    /\ n_to_client = <<>>
    /\ n_acc = {}

MaxRequests == 3

Requests == 1..MaxRequests

NoRequest == [fn |-> "idle", at |-> "none", origin |-> "none", handles |-> {}]

\* The process has just started: the cache is empty and no request is served.
ClientsIdle ==
    /\ clients = << >>
    /\ created = <<>>
    /\ c_req = [r \in Requests |-> NoRequest]

PipelineInit ==
    /\ TranscoderIdle
    /\ ProxyIdle
    /\ NarratorIdle
    /\ ClientsIdle
    /\ \E s \in PriorSessions : session_events = s.events /\ state = s.state
    /\ pl_pc = "researcher"
    /\ times_looped = 0
    /\ emitted = 0
    /\ invoked = <<Invocation("researcher", 1)>>
    /\ pl_log = <<LogEntry("start", "researcher", "", 1)>>

\* A remote stage yields one event; the runner appends it to the session.
StageEmit ==
    /\ pl_pc \in {"researcher", "judge", "content_builder"}
    /\ emitted < MaxEmitted
    /\ \E parts \in StageParts(pl_pc) :
         session_events' = Append(session_events, Event(pl_pc, parts, FALSE, CurrentIter))
    /\ emitted' = emitted + 1
    /\ UNCHANGED <<state, pl_pc, times_looped, invoked, pl_log, pl_others>>

\* A remote stage finishes: its after_agent_callback runs and the parent
\* starts the next sub-agent.
StageComplete ==
    /\ pl_pc \in {"researcher", "judge", "content_builder"}
    /\ state' = AfterAgentCallback(pl_pc, session_events, state)
    /\ pl_pc' = NextAgent(pl_pc)
    /\ invoked' = IF NextAgent(pl_pc) = "done" THEN invoked
                  ELSE Append(invoked, Invocation(NextAgent(pl_pc), CurrentIter))
    /\ pl_log' = pl_log \o CompletionLog(pl_pc, session_events, CurrentIter)
                    \o (IF NextAgent(pl_pc) = "done" THEN <<>>
                        ELSE <<LogEntry("start", NextAgent(pl_pc), "", CurrentIter)>>)
    /\ UNCHANGED <<session_events, times_looped, emitted, pl_others>>

\* EscalationChecker runs and the LoopAgent acts on its event.
EscalationCheck ==
    /\ pl_pc = "escalation_checker"
    /\ LET is_pass == IsPass(state)
           next == AfterChecker(is_pass, times_looped)
       IN /\ session_events' = Append(session_events,
                 Event("escalation_checker", <<>>, is_pass, CurrentIter))
          /\ times_looped' = IF is_pass THEN times_looped ELSE times_looped + 1
          /\ pl_pc' = next
          /\ invoked' = Append(invoked,
                 Invocation(next, IF is_pass THEN CurrentIter ELSE CurrentIter + 1))
          /\ pl_log' = pl_log
                 \o << LogEntry("read", "escalation_checker", "judge_feedback", CurrentIter),
                       LogEntry("end", "escalation_checker", "", CurrentIter),
                       LogEntry("start", next, "",
                                IF is_pass THEN CurrentIter ELSE CurrentIter + 1) >>
    /\ UNCHANGED <<state, emitted, pl_others>>

PipelineNext == StageEmit \/ StageComplete \/ EscalationCheck

SpecPipeline == PipelineInit /\ [][PipelineNext]_vars

(***************************************************************************)
(* Pipeline properties.                                                    *)
(***************************************************************************)
InvokedAgents(agents) == SelectSeq(invoked, LAMBDA v : v.agent \in agents)

\* The events the judge emitted in iteration k of this run.
JudgeEventsOf(k) == SelectSeq(session_events, LAMBDA e : e.author = "judge" /\ e.iter = k)

\* The judge's output in iteration k is the given text.
JudgeOutputIs(k, text) ==
    LET j == JudgeEventsOf(k) IN j # <<>> /\ j[Len(j)].parts = <<text>>

\* The escalation checker's event of iteration k is in the log, with this verdict.
CheckerRan(k, escalate) ==
    \E i \in DOMAIN session_events :
        session_events[i] = Event("escalation_checker", <<>>, escalate, k)

LoopEnded == pl_pc \in {"content_builder", "done"}

\* C1: whatever the judge emits (pass, fail, unparsable, nothing), the loop
\* runs at most max_iterations iterations, the run is never stuck before the
\* end, and once the loop has ended, by a pass or by exhausting the budget,
\* the Builder is invoked, exactly once.
C1_BoundedLoopThenBuilder ==
    /\ times_looped <= max_iterations
    /\ \A i \in DOMAIN invoked :
         invoked[i].agent \in {"researcher", "judge", "escalation_checker"}
            => invoked[i].iter <= max_iterations
    /\ Len(InvokedAgents({"researcher"})) <= max_iterations
    /\ Len(InvokedAgents({"escalation_checker"})) <= max_iterations
    /\ times_looped = max_iterations => LoopEnded
    /\ LoopEnded <=> Len(InvokedAgents({"content_builder"})) = 1
    /\ ~LoopEnded => Len(InvokedAgents({"content_builder"})) = 0
    /\ pl_pc # "done" => ENABLED StageComplete \/ ENABLED EscalationCheck

\* The budget was exhausted without any pass, and the Builder ran.
C1_Witness ==
    /\ pl_pc = "done"
    /\ times_looped = max_iterations
    /\ \A k \in 1..max_iterations : CheckerRan(k, FALSE)
    /\ \E i \in DOMAIN session_events : session_events[i].author = "content_builder"
                                        /\ session_events[i].iter > 0

\* C2: when the judge's output in iteration k is the fail verdict and
\* k < max_iterations, the checker does not escalate and iteration k+1 is
\* started; when it is the pass verdict, the checker escalates in iteration k
\* and neither the Researcher nor the Judge is invoked after that.
C2_FailContinuesPassEscalates ==
    \A k \in 1..max_iterations :
      \A p \in DOMAIN invoked :
        (invoked[p] = Invocation("escalation_checker", k) /\ Len(invoked) > p) =>
          /\ (JudgeOutputIs(k, FailJson) /\ k < max_iterations) =>
                /\ CheckerRan(k, FALSE)
                /\ invoked[p + 1] = Invocation("researcher", k + 1)
          /\ JudgeOutputIs(k, PassJson) =>
                /\ CheckerRan(k, TRUE)
                /\ \A q \in (p + 1)..Len(invoked) :
                     invoked[q].agent \notin {"researcher", "judge", "escalation_checker"}

\* Iteration 1 failed and iteration 2 started; iteration 2 passed and the run
\* went to the end without a third iteration.
C2_Witness ==
    /\ pl_pc = "done"
    /\ JudgeOutputIs(1, FailJson)
    /\ JudgeOutputIs(2, PassJson)
    /\ CheckerRan(1, FALSE)
    /\ CheckerRan(2, TRUE)
    /\ Len(InvokedAgents({"researcher"})) = 2

\* The writes of a key in iteration k, in order.
WritesOf(key, k) == SelectSeq(pl_log, LAMBDA e : e.op = "write" /\ e.key = key /\ e.iter = k)

\* Iteration k has run its Researcher and its Judge to the end.
StagesRan(k) ==
    /\ \E i \in DOMAIN pl_log : pl_log[i] = LogEntry("end", "researcher", "", k)
    /\ \E i \in DOMAIN pl_log : pl_log[i] = LogEntry("end", "judge", "", k)

\* C22: in every iteration that has run its Researcher and Judge stages, the
\* key research_findings and the key judge_feedback have each been written
\* exactly once in that iteration, whatever the stages emitted.
C22_EachKeyWrittenOncePerIteration ==
    \A k \in 1..max_iterations :
        StagesRan(k) =>
            /\ Len(WritesOf("research_findings", k)) = 1
            /\ Len(WritesOf("judge_feedback", k)) = 1

\* The part of the state store the checker is said to read.
OnlyJudgeFeedback(st) == [k \in DOMAIN st \cap {"judge_feedback"} |-> st[k]]

\* C23: the state store never holds a key other than research_findings and
\* judge_feedback; a step never removes a key; the steps of the Escalation
\* Checker and of the Builder leave the store as it is; the checker's reads
\* are of judge_feedback only, and its verdict depends on nothing else.
C23_OnlyTwoKeysWritten ==
    /\ [](/\ DOMAIN state \subseteq {"research_findings", "judge_feedback"}
          /\ IsPass(state) = IsPass(OnlyJudgeFeedback(state))
          /\ \A i \in DOMAIN pl_log :
               /\ pl_log[i].op = "write" =>
                    /\ pl_log[i].agent \in {"researcher", "judge"}
                    /\ pl_log[i].key = OutputKey(pl_log[i].agent)
               /\ pl_log[i].op = "read" =>
                    /\ pl_log[i].agent = "escalation_checker"
                    /\ pl_log[i].key = "judge_feedback")
    /\ [][/\ DOMAIN state \subseteq DOMAIN state'
          /\ pl_pc \in {"escalation_checker", "content_builder"} => state' = state]_vars

\* The run is over, both keys are written, and the Builder's story is in the
\* session while the store holds no third key.
C23_Witness ==
    /\ pl_pc = "done"
    /\ DOMAIN state = {"research_findings", "judge_feedback"}
    /\ \E i \in DOMAIN session_events :
         /\ session_events[i].author = "content_builder"
         /\ session_events[i].iter > 0
         /\ session_events[i].parts = <<Story>>
    /\ \E i \in DOMAIN pl_log : pl_log[i].op = "read"

\* The starts and ends of stages, in order.
StartsEnds == SelectSeq(pl_log, LAMBDA e : e.op \in {"start", "end"})

LoopAgents == {"researcher", "judge", "escalation_checker"}

\* C24: stages run one at a time (every start but the first follows the end
\* of the stage started before it); in each iteration the Judge starts right
\* after the Researcher has ended, with the Researcher's write before that
\* end, and the checker starts right after the Judge has ended and reads
\* judge_feedback after every write of that iteration; the Builder is started
\* at most once, after the loop's last stage has ended, and exactly once in a
\* finished run.
C24_StagesStrictlySequential ==
    /\ \A j \in DOMAIN StartsEnds :
         IF j % 2 = 1
         THEN StartsEnds[j].op = "start"
         ELSE /\ StartsEnds[j].op = "end"
              /\ StartsEnds[j].agent = StartsEnds[j - 1].agent
              /\ StartsEnds[j].iter = StartsEnds[j - 1].iter
    /\ pl_pc # "done" =>
         /\ Len(StartsEnds) % 2 = 1
         /\ StartsEnds[Len(StartsEnds)].agent = pl_pc
    /\ pl_pc = "done" => Len(StartsEnds) % 2 = 0
    /\ \A i \in DOMAIN pl_log :
         /\ (pl_log[i].op = "start" /\ pl_log[i].agent = "judge") =>
               pl_log[i - 1] = LogEntry("end", "researcher", "", pl_log[i].iter)
         /\ (pl_log[i].op = "start" /\ pl_log[i].agent = "escalation_checker") =>
               pl_log[i - 1] = LogEntry("end", "judge", "", pl_log[i].iter)
         /\ pl_log[i].op = "write" =>
               pl_log[i + 1] = LogEntry("end", pl_log[i].agent, "", pl_log[i].iter)
         /\ pl_log[i].op = "read" =>
               /\ pl_log[i - 1] = LogEntry("start", "escalation_checker", "", pl_log[i].iter)
               /\ \A w \in DOMAIN pl_log :
                    (pl_log[w].op = "write" /\ pl_log[w].iter <= pl_log[i].iter) => w < i
         /\ (pl_log[i].op = "start" /\ pl_log[i].agent = "content_builder") =>
               /\ pl_log[i - 1].op = "end"
               /\ pl_log[i - 1].agent = "escalation_checker"
               /\ \A j \in (i + 1)..Len(pl_log) :
                    pl_log[j].agent \notin LoopAgents /\ pl_log[j].op # "start"
    /\ Len(SelectSeq(pl_log, LAMBDA e : e.op = "start" /\ e.agent = "content_builder"))
          = IF LoopEnded THEN 1 ELSE 0

\* A finished run of two iterations or more in which both keys were written
\* in the first iteration and the Builder ran last.
C24_Witness ==
    /\ pl_pc = "done"
    /\ Len(WritesOf("research_findings", 1)) = 1
    /\ Len(WritesOf("judge_feedback", 1)) = 1
    /\ \E i \in DOMAIN pl_log : pl_log[i] = LogEntry("start", "researcher", "", 2)
    /\ pl_log[Len(pl_log)].agent = "content_builder"
    /\ pl_log[Len(pl_log)].op = "end"

\* The events of an agent that have a part with text.
WithText(agent) ==
    SelectSeq(session_events, LAMBDA e : e.author = agent /\ \E q \in DOMAIN e.parts : e.parts[q] # NoText)

\* The value stored under key is derived from the most recent event of the
\* agent that has text (from one of its parts with text), if there is one.
StoredFromLatest(key, agent) ==
    WithText(agent) # <<>> =>
        LET latest == WithText(agent)[Len(WithText(agent))]
        IN /\ key \in DOMAIN state
           /\ \E q \in DOMAIN latest.parts :
                /\ latest.parts[q] # NoText
                /\ state[key] = SavedValue(key, latest.parts[q])

\* C26: once the Researcher (the Judge) has completed, the value under
\* research_findings (judge_feedback) is derived from the most recent event
\* of that stage that has non-empty text, also when the first part of that
\* event has no text and a later part has.
C26_CaptureFromLatestEventWithText ==
    /\ pl_pc = "judge" => StoredFromLatest("research_findings", "researcher")
    /\ pl_pc = "escalation_checker" => StoredFromLatest("judge_feedback", "judge")

\* The claim's reading of a pass: judge_feedback is structured with status
\* pass, or is raw text in which the marker occurs.
ClaimedPass(st) ==
    /\ "judge_feedback" \in DOMAIN st
    /\ LET fb == st["judge_feedback"]
       IN \/ /\ fb.kind = "dict"
             /\ \E i \in DOMAIN fb.items : fb.items[i] = <<QStatus, QPass>>
          \/ /\ fb.kind = "str"
             /\ \E i \in DOMAIN fb.text :
                  /\ i + 3 <= Len(fb.text)
                  /\ <<fb.text[i], fb.text[i + 1], fb.text[i + 2], fb.text[i + 3]>>
                        = <<QStatus, ":", " ", QPass>>

\* C27: the step of the Escalation Checker appends one event of the checker,
\* which escalates exactly when judge_feedback is structured with status pass
\* or is raw text containing the marker; in every other case (fail, another
\* status, no status, raw text without the marker, no key) the event does not
\* escalate and the loop goes on to its next iteration, if one is left.
C27_EscalatesExactlyOnPass ==
    [][pl_pc = "escalation_checker" =>
         /\ Len(session_events') = Len(session_events) + 1
         /\ session_events'[Len(session_events')].author = "escalation_checker"
         /\ session_events'[Len(session_events')].escalate = ClaimedPass(state)
         /\ ClaimedPass(state) => pl_pc' = "content_builder"
         /\ ~ClaimedPass(state) =>
              pl_pc' = IF times_looped + 1 < max_iterations THEN "researcher"
                       ELSE "content_builder"]_vars

\* A structured verdict without status did not escalate in iteration 1; a
\* fenced verdict, kept as raw text with the marker in it, did in iteration 2.
C27_Witness ==
    /\ pl_pc = "done"
    /\ JudgeOutputIs(1, NoStatusJson)
    /\ CheckerRan(1, FALSE)
    /\ JudgeOutputIs(2, FencedPass)
    /\ CheckerRan(2, TRUE)
    /\ state["judge_feedback"] = StrValue(FencedPass)

\* The text is a JudgeFeedback object: status pass or fail, and a feedback.
IsJudgeFeedback(text) ==
    /\ JsonLoads(text) # JsonError
    /\ DictGet(JsonLoads(text).items, QStatus) \in {QPass, QFail}
    /\ DictGet(JsonLoads(text).items, QFeedback) # "None"

\* The original statement of C28: the parsed form is stored when the captured
\* text parses as a JudgeFeedback, and the raw text in every other case.
C28_Original ==
    (pl_pc = "escalation_checker" /\ CapturedText("judge", session_events) # NoText) =>
        LET text == CapturedText("judge", session_events)
        IN /\ "judge_feedback" \in DOMAIN state
           /\ state["judge_feedback"] =
                IF IsJudgeFeedback(text) THEN JsonLoads(text) ELSE StrValue(text)

\* The first token of the text that is not whitespace is an opening brace.
OpensWithBrace(text) ==
    \E i \in DOMAIN text :
        /\ text[i] = "{"
        /\ \A j \in 1..(i - 1) : IsSpace(text[j])

\* C28 (amended): when the Judge's captured text opens with a brace, after
\* whitespace, and parses as a JSON object, whether or not the object is a
\* JudgeFeedback, the parsed form is stored under judge_feedback; in every
\* other case the raw text is stored unchanged.  The completion of the Judge
\* never fails, always writes the key when there is a captured text, and
\* adds no event to the session.
C28_ParsedJsonOrRawText ==
    /\ []((pl_pc = "escalation_checker" /\ CapturedText("judge", session_events) # NoText) =>
            LET text == CapturedText("judge", session_events)
            IN /\ "judge_feedback" \in DOMAIN state
               /\ state["judge_feedback"] =
                    IF OpensWithBrace(text) /\ JsonLoads(text) # JsonError
                    THEN JsonLoads(text) ELSE StrValue(text))
    /\ [](pl_pc = "judge" => ENABLED StageComplete)
    /\ [][(pl_pc = "judge" /\ pl_pc' # "judge") =>
            /\ session_events' = session_events
            /\ pl_pc' = "escalation_checker"]_vars

\* A truncated verdict was kept as raw text, unchanged.
C28_Witness ==
    /\ pl_pc = "escalation_checker"
    /\ JudgeOutputIs(CurrentIter, TruncatedPass)
    /\ state["judge_feedback"] = StrValue(TruncatedPass)

\* The judge emitted an event with text in iteration k of this run.
JudgeSpokeIn(k) ==
    \E i \in DOMAIN session_events :
        /\ session_events[i].author = "judge"
        /\ session_events[i].iter = k
        /\ \E q \in DOMAIN session_events[i].parts : session_events[i].parts[q] # NoText

\* C34: the Escalation Checker escalates in iteration k only on output of
\* the Judge of iteration k: when the Judge emitted no event with text in
\* iteration k, the checker of iteration k does not escalate, whatever
\* verdict an earlier iteration or an earlier run left in the session.
C34_EscalatesOnlyOnThisIterationsVerdict ==
    \A k \in 1..max_iterations : CheckerRan(k, TRUE) => JudgeSpokeIn(k)

(***************************************************************************)
(* Transcoder: chat_stream.event_generator.                                *)
(*                                                                         *)
(* Values of the events' JSON: a string, a mapping (its items in order) or *)
(* None.                                                                   *)
(***************************************************************************)
None == [t |-> "none"]

Str(v) == [t |-> "str", v |-> v]

Dict(items) == [t |-> "dict", v |-> items]

\* isinstance(x, dict)
IsDict(x) == x.t = "dict"

\* bool(x)
Truthy(x) ==
    CASE x.t = "none" -> FALSE
      [] x.t = "str" -> x.v # ""
      [] x.t = "dict" -> x.v # <<>>

\* dict.get(key) on the items of a mapping
RECURSIVE Get(_, _)
Get(items, key) ==
    IF items = <<>> THEN None
    ELSE IF items[Len(items)][1] = key THEN items[Len(items)][2]
    ELSE Get(SubSeq(items, 1, Len(items) - 1), key)

\* a or b
Or(a, b) == IF Truthy(a) THEN a ELSE b

RECURSIVE extract_google_html(_)
RECURSIVE SearchValues(_, _)

\* for v in data.values(): if isinstance(v, dict): res = extract_google_html(v) ...
SearchValues(items, i) ==
    IF i > Len(items) THEN None
    ELSE LET v == items[i][2]
             res == IF IsDict(v) THEN extract_google_html(v) ELSE None
         IN IF Truthy(res) THEN res ELSE SearchValues(items, i + 1)

extract_google_html(data) ==
    IF ~IsDict(data) THEN None
    ELSE IF Truthy(Get(data.v, "rendered_content")) THEN Get(data.v, "rendered_content")
    ELSE IF Truthy(Get(data.v, "renderedContent")) THEN Get(data.v, "renderedContent")
    ELSE LET gm == Or(Get(data.v, "grounding_metadata"), Get(data.v, "groundingMetadata"))
             rc == IF IsDict(gm)
                   THEN Or(Get(gm.v, "rendered_content"), Get(gm.v, "renderedContent"))
                   ELSE None
         IN IF Truthy(rc) THEN rc ELSE SearchValues(data.v, 1)

\* Bound: events of one chat stream.
MaxEvents == 4

Part(text, thought) == [text |-> text, thought |-> thought]

\* An event as the event source yields it: author ("None": no author),
\* content.parts (<<>>: no content) and the other fields of the event's JSON
\* (the author is a string and the content mapping holds only parts and role,
\* so neither carries markup).
SseEvent(author, parts, fields) == [author |-> author, parts |-> parts, fields |-> fields]

StoryText == <<"#", " ", "Title", "\n">>
ThoughtText == <<"planning">>
TailText == <<"\n", "The", " ", "end", " ">>
BlankText == <<" ", "\n">>
FeedbackText == <<"My", " ", "Feedback:", " ", "fine">>
DashedJson == <<" ", "---{", QStatus, ":", " ", QPass, "}">>
PipelineText == <<"Once">>
ErrorText == <<"Error", " ", "boom">>

EventPool ==
    { SseEvent("researcher", <<Part(Findings, FALSE)>>,
               Dict(<< <<"groundingMetadata", Dict(<< <<"renderedContent", Str("A")>> >>)>> >>)),
      SseEvent("judge", <<Part(FailJson, FALSE)>>,
               Dict(<< <<"rendered_content", Str("")>> >>)),
      SseEvent("judge", <<Part(PassJson, FALSE)>>, Dict(<<>>)),
      SseEvent("content_builder", <<Part(StoryText, FALSE)>>,
               Dict(<< <<"renderedContent", Str("B")>> >>)),
      SseEvent("content_builder", <<Part(ThoughtText, TRUE), Part(TailText, FALSE)>>, Dict(<<>>)),
      SseEvent("content_builder", <<Part(BlankText, FALSE)>>, Dict(<<>>)),
      SseEvent("content_builder", <<Part(FeedbackText, FALSE)>>, Dict(<<>>)),
      SseEvent("content_builder", <<Part(DashedJson, FALSE)>>, Dict(<<>>)),
      SseEvent("gemini_tales_pipeline", <<Part(PipelineText, FALSE)>>, Dict(<<>>)),
      SseEvent(root_agent_name, <<Part(PipelineText, FALSE)>>, Dict(<<>>)),
      SseEvent("None", <<Part(Prose, FALSE)>>, Dict(<<>>)),
      SseEvent("escalation_checker", <<>>,
               Dict(<< <<"actions", Dict(<< <<"stateDelta",
                        Dict(<< <<"rendered_content", Str("C")>> >>)>> >>)>> >>)) }

\* agent_name: AGENT_NAME, or the first app the agent server lists, or "agent".
AgentNames == {"orchestrator", "agent", "content_builder"}

\* The event query_adk_sever makes of an error response.
ErrorEvent(agent_name) == SseEvent(agent_name, <<Part(ErrorText, FALSE)>>, Dict(<<>>))

DiscoveryLine == <<"Google Search sources found...">>
ResearcherLine == <<"Adventure Seeker is scouting...">>
JudgeLine == <<"Guardian is checking safety...">>
BuilderLine == <<"Storysmith is writing...">>
Placeholder == <<"The", " ", "story", " ", "is", " ", "taking", " ", "shape...">>

\* An outbound record.  ev is history: the number of the event that caused
\* the record (the number of events plus one for the result).
Progress(text, ev) ==
    [type |-> "progress", text |-> text, rendered_content |-> Str("absent"), ev |-> ev]

Result(text, rc, ev) ==
    [type |-> "result", text |-> text, rendered_content |-> rc, ev |-> ev]

\* Mutant: a later find replaces the captured markup.
CaptureMarkup_LastWins(rc, captured) == IF Truthy(rc) THEN rc ELSE captured

\* if rc and not rendered_content: rendered_content = rc
CaptureMarkup(rc, captured) == IF Truthy(rc) /\ ~Truthy(captured) THEN rc ELSE captured

\* Mutant: every find is announced.
AnnouncesMarkup_EveryFind(rc, captured) == Truthy(rc)

\* if rc and not rendered_content: yield the discovery record
AnnouncesMarkup(rc, captured) == Truthy(rc) /\ ~Truthy(captured)

\* Mutant: an author without a stage gets a status line too.
StatusLines_AnyAuthor(author, ev) ==
    CASE author = "researcher" -> <<Progress(ResearcherLine, ev)>>
      [] author = "judge" -> <<Progress(JudgeLine, ev)>>
      [] OTHER -> <<Progress(BuilderLine, ev)>>

\* 2. Progress updates
StatusLines(author, ev) ==
    CASE author = "researcher" -> <<Progress(ResearcherLine, ev)>>
      [] author = "judge" -> <<Progress(JudgeLine, ev)>>
      [] author = "content_builder" -> <<Progress(BuilderLine, ev)>>
      [] OTHER -> <<>>

\* Mutant: the dashed form is not recognised.
is_technical_NoDashed(text) ==
    \/ startswith(strip(text), <<"{">>)
    \/ contains(text, <<"Feedback:">>)

is_technical(text) ==
    \/ startswith(strip(text), <<"{">>)
    \/ startswith(strip(text), <<"---{">>)
    \/ contains(text, <<"Feedback:">>)

\* Mutant: thoughts are not blocked.
Contributes_WithThoughts(author, part) ==
    /\ part.text # NoText
    /\ ~is_technical(part.text)
    /\ author \in {"content_builder", "gemini_tales_pipeline"}

\* Mutant: the researcher is in the allow-list.
Contributes_FromResearcher(author, part) ==
    /\ part.thought # TRUE
    /\ part.text # NoText
    /\ ~is_technical(part.text)
    /\ author \in {"content_builder", "gemini_tales_pipeline", "researcher"}

\* Mutant: the author is not looked at.
Contributes_AnyAuthor(author, part) ==
    /\ part.thought # TRUE
    /\ part.text # NoText
    /\ ~is_technical(part.text)

\* 3. whether a part's text is appended to final_text
Contributes(author, part) ==
    /\ part.thought # TRUE
    /\ part.text # NoText
    /\ ~is_technical(part.text)
    /\ author \in {"content_builder", "gemini_tales_pipeline"}

\* for part in parts: ... final_text += text
RECURSIVE Accumulate(_, _, _)
Accumulate(text, author, parts) ==
    IF parts = <<>> THEN text
    ELSE Accumulate(IF Contributes(author, Head(parts)) THEN text \o Head(parts).text ELSE text,
                    author, Tail(parts))

\* history: the origin of each part appended
RECURSIVE Contributions(_, _, _)
Contributions(author, parts, ev) ==
    IF parts = <<>> THEN <<>>
    ELSE (IF Contributes(author, Head(parts))
          THEN <<[author |-> author, thought |-> Head(parts).thought,
                  text |-> Head(parts).text, ev |-> ev]>>
          ELSE <<>>) \o Contributions(author, Tail(parts), ev)

\* Mutant: the text is sent as accumulated, not stripped.
ResultText_Unstripped(text) == IF strip(text) = <<>> THEN Placeholder ELSE text

\* Final safety check, then final_text.strip()
ResultText(text) == strip(IF strip(text) = <<>> THEN Placeholder ELSE text)

\* Mutant: no result record for an empty story.
ResultRecords_SkipEmpty(text, rc, ev) ==
    IF strip(text) = <<>> THEN <<>> ELSE <<Result(ResultText(text), rc, ev)>>

\* Send final result
ResultRecords(text, rc, ev) == <<Result(ResultText(text), rc, ev)>>

\* No pipeline run is modelled.
PipelineIdle ==
    /\ session_events = <<>>
    /\ state = NoState
    /\ pl_pc = "idle"
    /\ times_looped = 0
    /\ emitted = 0
    /\ invoked = <<>>
    /\ pl_log = <<>>

TranscoderInit ==
    /\ PipelineIdle
    /\ ProxyIdle
    /\ NarratorIdle
    /\ ClientsIdle
    /\ t_pc = "streaming"
    /\ response_is_error \in BOOLEAN
    /\ t_events = <<>>
    /\ final_text = <<>>
    /\ rendered_content = None
    /\ out = <<>>
    /\ contrib = <<>>

\* One pass of the loop body for an event the source yielded.
Transcode(event) ==
    LET ev == Len(t_events) + 1
        rc == extract_google_html(event.fields)
    IN /\ t_events' = Append(t_events, event)
       /\ rendered_content' = CaptureMarkup(rc, rendered_content)
       /\ out' = out
            \o (IF AnnouncesMarkup(rc, rendered_content)
                THEN <<Progress(DiscoveryLine, ev)>> ELSE <<>>)
            \o StatusLines(event.author, ev)
       /\ final_text' = Accumulate(final_text, event.author, event.parts)
       /\ contrib' = contrib \o Contributions(event.author, event.parts, ev)

\* The response is not an error: the source yields the next server event and
\* the loop body runs on it.
OnEvent ==
    /\ t_pc = "streaming"
    /\ ~response_is_error
    /\ Len(t_events) < MaxEvents
    /\ \E event \in EventPool : Transcode(event)
    /\ UNCHANGED <<t_pc, response_is_error, t_others>>

\* The response is an error and its text can be read: the source yields the
\* one error event, authored by agent_name, and the loop body runs on it.
ErrorResponseEvent ==
    /\ t_pc = "streaming"
    /\ response_is_error
    /\ t_events = <<>>
    /\ \E agent_name \in AgentNames : Transcode(ErrorEvent(agent_name))
    /\ UNCHANGED <<t_pc, response_is_error, t_others>>

\* The response is an error and event_source.response.text is read on the
\* streamed response before its body has been read: httpx raises
\* ResponseNotRead, which leaves the source and the generator.
ErrorResponseNotRead ==
    /\ t_pc = "streaming"
    /\ response_is_error
    /\ t_events = <<>>
    /\ t_pc' = "error"
    /\ UNCHANGED <<response_is_error, t_events, final_text, rendered_content, out, contrib,
                   t_others>>

\* The event source is exhausted: the safety check and the result record.
StreamEnd ==
    /\ t_pc = "streaming"
    /\ response_is_error => t_events # <<>>
    /\ final_text' = IF strip(final_text) = <<>> THEN Placeholder ELSE final_text
    /\ out' = out \o ResultRecords(final_text, rendered_content, Len(t_events) + 1)
    /\ t_pc' = "done"
    /\ UNCHANGED <<response_is_error, t_events, rendered_content, contrib, t_others>>

\* The event source raises while the server events are read (transport
\* error, a server event that is not JSON): the generator ends with the
\* exception and yields nothing more.
StreamError ==
    /\ t_pc = "streaming"
    /\ ~response_is_error
    /\ t_pc' = "error"
    /\ UNCHANGED <<response_is_error, t_events, final_text, rendered_content, out, contrib,
                   t_others>>

TranscoderNext ==
    \/ OnEvent
    \/ ErrorResponseEvent
    \/ ErrorResponseNotRead
    \/ StreamEnd
    \/ StreamError

SpecTranscoder == TranscoderInit /\ [][TranscoderNext]_vars

(***************************************************************************)
(* Transcoder properties.                                                  *)
(***************************************************************************)
Min(S) == CHOOSE x \in S : \A y \in S : x <= y

Max(S) == CHOOSE x \in S : \A y \in S : x >= y

LastOut == out[Len(out)]

\* The events seen so far whose extraction is non-empty.
MarkupEvents == {i \in DOMAIN t_events : Truthy(extract_google_html(t_events[i].fields))}

\* The value extracted from the first of them, or None.
FirstMarkup ==
    IF MarkupEvents = {} THEN None
    ELSE extract_google_html(t_events[Min(MarkupEvents)].fields)

\* C5: at every point of the run the captured markup is the value extracted
\* from the first event whose extraction is non-empty (None if there is no
\* such event), so a later find never replaces it, and the result record
\* carries that value.
C5_FirstMarkupWins ==
    /\ rendered_content = FirstMarkup
    /\ t_pc = "done" =>
         /\ LastOut.type = "result"
         /\ LastOut.rendered_content = FirstMarkup

\* Two events carried different markup and the result has the first one.
C5_Witness ==
    /\ t_pc = "done"
    /\ \E i, j \in MarkupEvents :
         /\ i < j
         /\ extract_google_html(t_events[i].fields) # extract_google_html(t_events[j].fields)
         /\ LastOut.rendered_content = extract_google_html(t_events[i].fields)

DiscoveryRecords == SelectSeq(out, LAMBDA r : r.type = "progress" /\ r.text = DiscoveryLine)

\* C6: the discovery progress record is emitted exactly once if some event
\* carried non-empty markup, and not at all otherwise, however many events
\* carried markup.
C6_OneDiscoveryRecord ==
    Len(DiscoveryRecords) = IF MarkupEvents = {} THEN 0 ELSE 1

\* Several events carried markup; one discovery record was sent.
C6_Witness ==
    /\ t_pc = "done"
    /\ Cardinality(MarkupEvents) >= 2
    /\ Len(DiscoveryRecords) = 1

RECURSIVE Concat(_)
Concat(texts) == IF texts = <<>> THEN <<>> ELSE Head(texts) \o Concat(Tail(texts))

ContribTexts == [i \in DOMAIN contrib |-> contrib[i].text]

\* The accumulator the loop builds over a whole event sequence.
RECURSIVE AccumulateAll(_)
AccumulateAll(events) ==
    IF events = <<>> THEN <<>>
    ELSE Accumulate(AccumulateAll(SubSeq(events, 1, Len(events) - 1)),
                    events[Len(events)].author, events[Len(events)].parts)

\* The events with their flagged parts removed.
WithoutThoughts(events) ==
    [i \in DOMAIN events |->
        [events[i] EXCEPT !.parts = SelectSeq(events[i].parts, LAMBDA q : q.thought # TRUE)]]

\* C7: no part with the thought flag set contributes to the accumulated
\* text: none of the parts appended is flagged, the accumulator holds exactly
\* the appended parts, and removing every flagged part from the input leaves
\* the accumulator as it is.
C7_ThoughtsNeverContribute ==
    /\ \A i \in DOMAIN contrib : contrib[i].thought = FALSE
    /\ t_pc = "streaming" =>
         /\ final_text = Concat(ContribTexts)
         /\ final_text = AccumulateAll(WithoutThoughts(t_events))

\* The Builder sent a flagged part with plain text and an unflagged one; only
\* the unflagged one is in the result.
C7_Witness ==
    /\ t_pc = "done"
    /\ \E i \in DOMAIN t_events :
         /\ t_events[i].author = "content_builder"
         /\ \E q \in DOMAIN t_events[i].parts :
              /\ t_events[i].parts[q].thought
              /\ ~is_technical(t_events[i].parts[q].text)
    /\ LastOut.text = strip(TailText)

IsBlank(s) == \A i \in DOMAIN s : IsSpace(s[i])

\* s without its leading and trailing whitespace
Trimmed(s) ==
    LET keep == {i \in DOMAIN s : ~IsSpace(s[i])}
    IN IF keep = {} THEN <<>> ELSE SubSeq(s, Min(keep), Max(keep))

\* C8: when the event sequence is exhausted, the result record's text is the
\* placeholder if the accumulated text is empty or only whitespace, and the
\* accumulated text without its leading and trailing whitespace otherwise.
C8_PlaceholderOrTrimmed ==
    [][(t_pc = "streaming" /\ t_pc' = "done") =>
          /\ out' # <<>>
          /\ out'[Len(out')].type = "result"
          /\ out'[Len(out')].text =
                IF IsBlank(final_text) THEN Placeholder ELSE Trimmed(final_text)]_vars

\* Only whitespace was accumulated and the result is the placeholder.
C8_Witness ==
    /\ t_pc = "done"
    /\ contrib # <<>>
    /\ IsBlank(Concat(ContribTexts))
    /\ LastOut.text = Placeholder

JudgeParts == SelectSeq([i \in DOMAIN t_events |-> t_events[i]], LAMBDA e : e.author = "judge")

\* The run of the scenario: researcher text first, judge verdicts fail then
\* pass, the Builder's story last.
ScenarioRun ==
    /\ Len(t_events) >= 4
    /\ t_events[1].author = "researcher"
    /\ \A i \in 1..(Len(t_events) - 1) : t_events[i].author \in {"researcher", "judge"}
    /\ [i \in DOMAIN JudgeParts |-> JudgeParts[i].parts]
          = << <<Part(FailJson, FALSE)>>, <<Part(PassJson, FALSE)>> >>
    /\ t_events[Len(t_events)].author = "content_builder"
    /\ t_events[Len(t_events)].parts = <<Part(StoryText, FALSE)>>

\* C9: no part of a judge or researcher event is ever appended to the result
\* text; and in the scenario run the result text is the Builder's text,
\* trimmed, with no judge text in it.
C9_NoJudgeOrResearcherText ==
    /\ \A i \in DOMAIN contrib : contrib[i].author \notin {"judge", "researcher"}
    /\ t_pc = "streaming" => final_text = Concat(ContribTexts)
    /\ (t_pc = "done" /\ ScenarioRun) =>
         /\ LastOut.text = Trimmed(StoryText)
         /\ \A i \in DOMAIN JudgeParts :
              ~contains(LastOut.text, JudgeParts[i].parts[1].text)

C9_Witness ==
    /\ t_pc = "done"
    /\ ScenarioRun
    /\ LastOut.text = Trimmed(StoryText)

\* The status line of an author, if it has one.
LineOf(author) ==
    CASE author = "researcher" -> ResearcherLine
      [] author = "judge" -> JudgeLine
      [] author = "content_builder" -> BuilderLine
      [] OTHER -> <<>>

\* C10: when the event sequence ends without a stream error there is exactly
\* one result record and it is the last record; before the end every record
\* is a progress record; and the progress records are in the arrival order of
\* the events that caused them.
C10_OneResultLast ==
    /\ t_pc = "done" =>
         /\ out # <<>>
         /\ LastOut.type = "result"
         /\ \A i \in 1..(Len(out) - 1) : out[i].type = "progress"
    /\ t_pc = "streaming" => \A i \in DOMAIN out : out[i].type = "progress"
    /\ \A i, j \in DOMAIN out : i < j => out[i].ev <= out[j].ev
    /\ \A i \in DOMAIN out :
         out[i].type = "progress" =>
           /\ out[i].ev \in DOMAIN t_events
           /\ \/ out[i].text = LineOf(t_events[out[i].ev].author)
              \/ out[i].text = DiscoveryLine /\ out[i].ev \in MarkupEvents

\* A run with several progress records, and one with an empty story.
C10_Witness ==
    /\ t_pc = "done"
    /\ Len(out) >= 4
    /\ LastOut.text = Placeholder
    /\ \E i \in DOMAIN out : out[i].text = DiscoveryLine

\* The stage-status progress records caused by event i.
StatusRecordsOf(i) ==
    SelectSeq(out, LAMBDA r : /\ r.type = "progress"
                              /\ r.ev = i
                              /\ r.text \in {ResearcherLine, JudgeLine, BuilderLine})

\* C11: every event authored by researcher, judge or content_builder causes
\* exactly one stage-status progress record, carrying the line of that
\* author; an event of any other author, or without an author, causes none.
C11_OneStatusLinePerStageEvent ==
    \A i \in DOMAIN t_events :
        IF t_events[i].author \in {"researcher", "judge", "content_builder"}
        THEN /\ Len(StatusRecordsOf(i)) = 1
             /\ StatusRecordsOf(i)[1].text = LineOf(t_events[i].author)
        ELSE StatusRecordsOf(i) = <<>>

\* A finished stream with an event of each stage, an event without an author
\* and an event of the pipeline; only the three stage events have a line.
C11_Witness ==
    /\ t_pc = "done"
    /\ {"judge", "content_builder", "None"} \subseteq {t_events[i].author : i \in DOMAIN t_events}
    /\ \E i \in DOMAIN t_events :
         /\ t_events[i].author = "None"
         /\ StatusRecordsOf(i) = <<>>
    /\ \E i \in DOMAIN t_events :
         /\ t_events[i].author = "judge"
         /\ StatusRecordsOf(i) = <<Progress(JudgeLine, i)>>

\* The events of the authors the transcoder lets contribute.
FromAllowList(events) ==
    SelectSeq(events, LAMBDA e : e.author \in {"content_builder", "gemini_tales_pipeline"})

\* C12: only parts of events authored by content_builder or by the pipeline
\* name the transcoder expects are appended to the accumulator: every part
\* appended has such an author, and dropping the events of every other author
\* from the input leaves the accumulator as it is.
C12_OnlyAllowListedAuthors ==
    /\ \A i \in DOMAIN contrib : contrib[i].author \in {"content_builder", "gemini_tales_pipeline"}
    /\ t_pc = "streaming" =>
         /\ final_text = Concat(ContribTexts)
         /\ final_text = AccumulateAll(FromAllowList(t_events))

\* An event without an author carried unflagged plain prose, the Builder sent
\* the story, and the result is the story alone.
C12_Witness ==
    /\ t_pc = "done"
    /\ \E i \in DOMAIN t_events :
         /\ t_events[i].author = "None"
         /\ \E q \in DOMAIN t_events[i].parts :
              /\ t_events[i].parts[q].thought = FALSE
              /\ t_events[i].parts[q].text # NoText
              /\ ~is_technical(t_events[i].parts[q].text)
    /\ \E i \in DOMAIN t_events : t_events[i].author = "content_builder"
    /\ LastOut.text = Trimmed(StoryText)

\* The parts of event i that were appended to the accumulator, in order.
ContribOf(i) == SelectSeq(contrib, LAMBDA c : c.ev = i)

\* The texts of the parts of an event that are unflagged, non-empty and not
\* technical, in order.
PlainTexts(event) ==
    LET plain == SelectSeq(event.parts, LAMBDA q : /\ q.thought # TRUE
                                                   /\ q.text # NoText
                                                   /\ ~is_technical(q.text))
    IN [k \in DOMAIN plain |-> plain[k].text]

\* C13: every unflagged, non-technical text part of an event authored under
\* the name the orchestrator gives its root agent is appended to the
\* accumulator, and so appears in the result text.
C13_RootAgentTextContributes ==
    \A i \in DOMAIN t_events :
        t_events[i].author = root_agent_name =>
            [k \in DOMAIN ContribOf(i) |-> ContribOf(i)[k].text] = PlainTexts(t_events[i])

\* The text of a part begins with `prefix` (no whitespace is skipped).
BeginsWith(text, prefix) ==
    /\ Len(text) >= Len(prefix)
    /\ SubSeq(text, 1, Len(prefix)) = prefix

\* Some position of the text holds the token.
Mentions(text, token) == \E k \in DOMAIN text : text[k] = token

\* The three shapes of a technical payload, on the text as it is.
LooksTechnical(text) ==
    \/ BeginsWith(text, <<"{">>)
    \/ BeginsWith(text, <<"---{">>)
    \/ Mentions(text, "Feedback:")

\* The original statement of C14: a part of one of the three shapes never
\* contributes, and an unflagged Builder part of none of the three shapes
\* always contributes its full text.
C14_Original ==
    /\ \A i \in DOMAIN contrib : ~LooksTechnical(contrib[i].text)
    /\ \A i \in DOMAIN t_events :
         t_events[i].author = "content_builder" =>
            [k \in DOMAIN ContribOf(i) |-> ContribOf(i)[k].text]
               = LET kept == SelectSeq(t_events[i].parts,
                                       LAMBDA q : q.thought # TRUE /\ ~LooksTechnical(q.text))
                 IN [k \in DOMAIN kept |-> kept[k].text]

\* C14 (amended): the three shapes are looked for after the leading and
\* trailing whitespace of the text is removed (the substring anywhere): a
\* part of one of these shapes never contributes, whoever its author; an
\* unflagged Builder part with non-empty text of none of these shapes always
\* contributes its full text.
C14_TechnicalAfterTrimNeverContributes ==
    /\ \A i \in DOMAIN contrib :
         /\ ~LooksTechnical(Trimmed(contrib[i].text))
         /\ ~Mentions(contrib[i].text, "Feedback:")
    /\ \A i \in DOMAIN t_events :
         t_events[i].author = "content_builder" =>
            [k \in DOMAIN ContribOf(i) |-> ContribOf(i)[k].text]
               = LET kept == SelectSeq(t_events[i].parts,
                                       LAMBDA q : /\ q.thought # TRUE
                                                  /\ q.text # NoText
                                                  /\ ~LooksTechnical(Trimmed(q.text))
                                                  /\ ~Mentions(q.text, "Feedback:"))
                 IN [k \in DOMAIN kept |-> kept[k].text]
    /\ t_pc = "streaming" => final_text = Concat(ContribTexts)

\* The Builder sent a dashed payload behind leading whitespace, a text
\* mentioning Feedback: and the story; the result is the story alone.
C14_Witness ==
    /\ t_pc = "done"
    /\ \E i, j, k \in DOMAIN t_events :
         /\ t_events[i] = SseEvent("content_builder", <<Part(DashedJson, FALSE)>>, Dict(<<>>))
         /\ t_events[j] = SseEvent("content_builder", <<Part(FeedbackText, FALSE)>>, Dict(<<>>))
         /\ t_events[k].author = "content_builder"
         /\ t_events[k].parts = <<Part(StoryText, FALSE)>>
    /\ LastOut.text = Trimmed(StoryText)

\* C15: when the run_sse request is answered with an error response the run
\* is not aborted: the event source yields exactly one event, authored by
\* agent_name, whose one part is the text "Error <details>", and nothing
\* else, and the stream still ends with one result record, the last record.
C15_ErrorResponseIsOneEvent ==
    response_is_error =>
        /\ t_pc # "error"
        /\ Len(t_events) <= 1
        /\ \A i \in DOMAIN t_events : \E agent_name \in AgentNames :
              t_events[i] = ErrorEvent(agent_name)
        /\ t_pc = "done" =>
              /\ Len(t_events) = 1
              /\ LastOut.type = "result"
              /\ \A i \in 1..(Len(out) - 1) : out[i].type = "progress"

\* C16: when the run_sse request is answered with an error response and the
\* stream has ended, the error text is in the text of a record the client
\* was sent, a progress record or the result record.
C16_ErrorTextReachesClient ==
    (response_is_error /\ t_pc = "done") =>
        \E i \in DOMAIN out :
            /\ out[i].type \in {"progress", "result"}
            /\ contains(out[i].text, Trimmed(ErrorText))

(***************************************************************************)
(* Proxy relay: gemini_live_proxy (/ws/proxy).                             *)
(***************************************************************************)
\* Bound: frames read in each direction of one relay connection.
MaxFrames == 2

Close(code, reason) == [code |-> code, reason |-> reason]

\* What the wait for the first client message can produce: no message within
\* the timeout, the client gone, a frame that is not JSON, or a JSON object
\* (an absent field is "").
InitPayload(service_url, bearer_token) ==
    [kind |-> "json", service_url |-> service_url, bearer_token |-> bearer_token]

ProxyFirstMessages ==
    { [kind |-> "timeout"], [kind |-> "disconnect"], [kind |-> "not_json"],
      InitPayload("", ""), InitPayload("", "tok"),
      InitPayload("wss://live", "tok"), InitPayload("wss://live", "") }

\* generate_gcp_token(): a token, or None ("") when the default credentials fail
GcpTokens == {"gcp-token", ""}

\* A frame: text, or bytes that decode as UTF-8 or do not.
TextFrame(data) == [kind |-> "text", data |-> data]

BytesFrame(data, valid) == [kind |-> "bytes", data |-> data, valid |-> valid]

ClientFrames == {TextFrame("c1"), TextFrame("c2"), BytesFrame("c3", TRUE)}

UpstreamFrames == {TextFrame("s1"), BytesFrame("s2", TRUE), BytesFrame("s3", FALSE)}

\* Mutant: a binary frame is passed on as it came.
DecodeFrame_Passthrough(frame) == frame

\* if isinstance(message, bytes): message = message.decode('utf-8')
DecodeFrame(frame) ==
    IF frame.kind = "bytes"
    THEN IF frame.valid THEN TextFrame(frame.data) ELSE [kind |-> "decode_error"]
    ELSE frame

\* Mutant: the pending task is left running.
CancelPending_Forgotten(task) == task

\* for task in pending: task.cancel()
CancelPending(task) == IF task = "running" THEN "cancelled" ELSE task

\* Mutant: the upstream connection is left open.
CloseUpstream_Forgotten(upstream) == upstream

\* leaving `async with websockets.connect(...)`, and the finally block
CloseUpstream(upstream) == IF upstream = "none" THEN "none" ELSE "closed"

\* Mutant: the wait also returns on a timeout, with both pumps running.
WaitReturns_Timeout(c2s, s2c) == TRUE

\* asyncio.wait(pump_tasks, return_when=FIRST_COMPLETED) returns
WaitReturns(c2s, s2c) == c2s = "done" \/ s2c = "done"

\* One channel operation: the task, "read" or "write" (closing a channel
\* writes its close frame), the channel, and the pump tasks that are running
\* beside the task at that time.
Access(task, op, chan, beside) == [task |-> task, op |-> op, chan |-> chan, beside |-> beside]

\* The pump tasks of the proxy that are running, other than `self`.
ProxyPumps(c2s, s2c, self) ==
    ((IF c2s = "running" THEN {"client_to_server"} ELSE {})
     \cup (IF s2c = "running" THEN {"server_to_client"} ELSE {})) \ {self}

ProxyInit ==
    /\ PipelineIdle
    /\ TranscoderIdle
    /\ NarratorIdle
    /\ ClientsIdle
    /\ p_pc = "await_init"
    /\ p_close = NoClose
    /\ p_first = NoMsg
    /\ p_gcp = "unasked"
    /\ p_token_calls = 0
    /\ p_connects = 0
    /\ p_upstream = "none"
    /\ p_c2s = "none"
    /\ p_s2c = "none"
    /\ p_c2s_msg = NoMsg
    /\ p_s2c_msg = NoMsg
    /\ p_client_gone = FALSE
    /\ p_upstream_gone = FALSE
    /\ p_from_client = <<>>
    /\ p_to_upstream = <<>>
    /\ p_from_upstream = <<>>
    /\ p_to_client = <<>>
    /\ p_acc = {}

p_relay_vars == <<p_c2s, p_s2c, p_c2s_msg, p_s2c_msg, p_upstream_gone,
                  p_from_client, p_to_upstream, p_from_upstream, p_to_client>>

\* await websocket.close(code=1008, reason="Service URL is required")
MissingFieldClose == Close(1008, "Service URL is required")

\* await websocket.close(code=1008, reason="Authentication failed")
AuthFailedClose == Close(1008, "Authentication failed")

\* Mutant: an empty service_url is let through.
ServiceUrlMissing_Never(setup_data) == FALSE

\* if not service_url
ServiceUrlMissing(setup_data) == setup_data.service_url = ""

\* setup_data.get("bearer_token") or generate_gcp_token(): whether the right
\* operand is evaluated
AsksTokenSource(setup_data) == setup_data.bearer_token = ""

\* The handshake: the first message, service_url, the bearer token.
ProxyHandshake ==
    /\ p_pc = "await_init"
    /\ \E first \in ProxyFirstMessages, gcp \in GcpTokens :
         /\ p_first' = first
         /\ IF first.kind # "json"
            THEN \* TimeoutError, WebSocketDisconnect or JSONDecodeError: except Exception
                 /\ p_pc' = "closed"
                 /\ p_client_gone' = (first.kind = "disconnect")
                 /\ UNCHANGED <<p_close, p_gcp, p_token_calls>>
            ELSE IF ServiceUrlMissing(first)
            THEN /\ p_close' = MissingFieldClose
                 /\ p_pc' = "closed"
                 /\ UNCHANGED <<p_gcp, p_token_calls, p_client_gone>>
            ELSE LET asked == AsksTokenSource(first)
                     bearer_token == IF asked THEN gcp ELSE first.bearer_token
                 IN /\ p_token_calls' = IF asked THEN p_token_calls + 1 ELSE p_token_calls
                    /\ p_gcp' = IF asked THEN gcp ELSE p_gcp
                    /\ IF bearer_token = ""
                       THEN /\ p_close' = AuthFailedClose
                            /\ p_pc' = "closed"
                       ELSE /\ p_pc' = "connecting"
                            /\ UNCHANGED p_close
                    /\ UNCHANGED p_client_gone
    /\ p_acc' = p_acc \cup {Access("handler", "read", "client", ProxyPumps(p_c2s, p_s2c, "handler"))}
                  \cup (IF p_close' # p_close
                        THEN {Access("handler", "write", "client",
                                     ProxyPumps(p_c2s, p_s2c, "handler"))}
                        ELSE {})
    /\ UNCHANGED <<p_connects, p_upstream, p_relay_vars, p_others>>

\* websockets.connect: the connection is made and both pump tasks are
\* created, or it raises.
ProxyConnect ==
    /\ p_pc = "connecting"
    /\ p_connects' = p_connects + 1
    /\ \/ /\ p_upstream' = "open"
          /\ p_c2s' = "running"
          /\ p_s2c' = "running"
          /\ p_pc' = "relaying"
       \/ /\ p_pc' = "closed"
          /\ UNCHANGED <<p_upstream, p_c2s, p_s2c>>
    /\ UNCHANGED p_acc
    /\ UNCHANGED <<p_close, p_first, p_gcp, p_token_calls, p_c2s_msg, p_s2c_msg, p_client_gone,
                   p_upstream_gone, p_from_client, p_to_upstream, p_from_upstream,
                   p_to_client, p_others>>

\* client_to_server: message = await websocket.receive_text()
C2SReceive ==
    /\ p_c2s = "running"
    /\ p_c2s_msg = NoMsg
    /\ \/ /\ ~p_client_gone
          /\ Len(p_from_client) < MaxFrames
          /\ \E frame \in ClientFrames :
               /\ p_from_client' = Append(p_from_client, frame)
               /\ IF frame.kind = "text"
                  THEN /\ p_c2s_msg' = frame
                       /\ UNCHANGED p_c2s
                  ELSE \* receive_text finds no text in a binary frame and raises
                       /\ p_c2s' = "done"
                       /\ UNCHANGED p_c2s_msg
          /\ UNCHANGED p_client_gone
       \/ \* the client disconnects: receive_text raises
          /\ p_c2s' = "done"
          /\ p_client_gone' = TRUE
          /\ UNCHANGED <<p_c2s_msg, p_from_client>>
    /\ p_acc' = p_acc \cup {Access("client_to_server", "read", "client",
                                    ProxyPumps(p_c2s, p_s2c, "client_to_server"))}
    /\ UNCHANGED <<p_pc, p_close, p_first, p_gcp, p_token_calls, p_connects, p_upstream, p_s2c, p_s2c_msg,
                   p_upstream_gone, p_to_upstream, p_from_upstream, p_to_client, p_others>>

\* client_to_server: await server_websocket.send(message)
C2SSend ==
    /\ p_c2s = "running"
    /\ p_c2s_msg # NoMsg
    /\ IF p_upstream_gone
       THEN /\ p_c2s' = "done"
            /\ UNCHANGED p_to_upstream
       ELSE /\ p_to_upstream' = Append(p_to_upstream, p_c2s_msg)
            /\ UNCHANGED p_c2s
    /\ p_c2s_msg' = NoMsg
    /\ p_acc' = p_acc \cup {Access("client_to_server", "write", "upstream",
                                    ProxyPumps(p_c2s, p_s2c, "client_to_server"))}
    /\ UNCHANGED <<p_pc, p_close, p_first, p_gcp, p_token_calls, p_connects, p_upstream, p_s2c, p_s2c_msg,
                   p_client_gone, p_upstream_gone, p_from_client, p_from_upstream,
                   p_to_client, p_others>>

\* server_to_client: async for message in server_websocket, with the decoding
S2CReceive ==
    /\ p_s2c = "running"
    /\ p_s2c_msg = NoMsg
    /\ \/ /\ ~p_upstream_gone
          /\ Len(p_from_upstream) < MaxFrames
          /\ \E frame \in UpstreamFrames :
               /\ p_from_upstream' = Append(p_from_upstream, frame)
               /\ IF DecodeFrame(frame).kind = "decode_error"
                  THEN /\ p_s2c' = "done"
                       /\ UNCHANGED p_s2c_msg
                  ELSE /\ p_s2c_msg' = DecodeFrame(frame)
                       /\ UNCHANGED p_s2c
          /\ UNCHANGED p_upstream_gone
       \/ \* the upstream peer closes: the iteration ends or raises
          /\ p_s2c' = "done"
          /\ p_upstream_gone' = TRUE
          /\ UNCHANGED <<p_s2c_msg, p_from_upstream>>
    /\ p_acc' = p_acc \cup {Access("server_to_client", "read", "upstream",
                                    ProxyPumps(p_c2s, p_s2c, "server_to_client"))}
    /\ UNCHANGED <<p_pc, p_close, p_first, p_gcp, p_token_calls, p_connects, p_upstream, p_c2s, p_c2s_msg,
                   p_client_gone, p_from_client, p_to_upstream, p_to_client, p_others>>

\* server_to_client: await websocket.send_text(message)
S2CSend ==
    /\ p_s2c = "running"
    /\ p_s2c_msg # NoMsg
    /\ IF p_client_gone
       THEN /\ p_s2c' = "done"
            /\ UNCHANGED p_to_client
       ELSE /\ p_to_client' = Append(p_to_client, p_s2c_msg)
            /\ UNCHANGED p_s2c
    /\ p_s2c_msg' = NoMsg
    /\ p_acc' = p_acc \cup {Access("server_to_client", "write", "client",
                                    ProxyPumps(p_c2s, p_s2c, "server_to_client"))}
    /\ UNCHANGED <<p_pc, p_close, p_first, p_gcp, p_token_calls, p_connects, p_upstream, p_c2s, p_c2s_msg,
                   p_client_gone, p_upstream_gone, p_from_client, p_to_upstream,
                   p_from_upstream, p_others>>

\* asyncio.wait returns; the pending task is cancelled; the connection to the
\* upstream is closed on leaving the with block and in the finally block.
ProxyTeardown ==
    /\ p_pc = "relaying"
    /\ WaitReturns(p_c2s, p_s2c)
    /\ p_c2s' = CancelPending(p_c2s)
    /\ p_s2c' = CancelPending(p_s2c)
    /\ p_upstream' = CloseUpstream(p_upstream)
    /\ p_pc' = "closed"
    /\ p_acc' = p_acc \cup {Access("handler", "write", "upstream",
                                    ProxyPumps(p_c2s', p_s2c', "handler"))}
    /\ UNCHANGED <<p_close, p_first, p_gcp, p_token_calls, p_connects, p_c2s_msg, p_s2c_msg, p_client_gone,
                   p_upstream_gone, p_from_client, p_to_upstream, p_from_upstream,
                   p_to_client, p_others>>

ProxyNext ==
    \/ ProxyHandshake
    \/ ProxyConnect
    \/ C2SReceive
    \/ C2SSend
    \/ S2CReceive
    \/ S2CSend
    \/ ProxyTeardown

SpecProxy == ProxyInit /\ [][ProxyNext]_vars

\* C3: once a pump has ended the teardown can run, whichever pump ended first
\* and whatever the other is doing; and the one teardown cancels the other
\* pump and closes the upstream connection: a relay that is closed has no
\* running pump and no open upstream connection.
C3_TeardownCancelsSiblingClosesUpstream ==
    /\ (p_pc = "relaying" /\ (p_c2s = "done" \/ p_s2c = "done")) => ENABLED ProxyTeardown
    /\ p_pc = "relaying" => p_upstream = "open" /\ p_c2s # "none" /\ p_s2c # "none"
    /\ (p_pc = "closed" /\ p_c2s # "none") =>
         /\ p_c2s \in {"done", "cancelled"}
         /\ p_s2c \in {"done", "cancelled"}
         /\ "done" \in {p_c2s, p_s2c}
         /\ p_upstream = "closed"
    /\ p_pc # "relaying" => p_c2s # "running" /\ p_s2c # "running"

\* The upstream pump ended first, with a client message still in flight; the
\* client pump was cancelled and the upstream connection closed.
C3_Witness ==
    /\ p_pc = "closed"
    /\ p_s2c = "done"
    /\ p_c2s = "cancelled"
    /\ p_c2s_msg # NoMsg
    /\ p_upstream = "closed"

\* The proxy has made no attempt to reach the upstream service and has
\* started no pump.
NoUpstreamAttempt ==
    /\ p_connects = 0
    /\ p_upstream = "none"
    /\ p_c2s = "none"
    /\ p_s2c = "none"
    /\ p_from_client = <<>>
    /\ p_to_upstream = <<>>
    /\ p_from_upstream = <<>>
    /\ p_to_client = <<>>

\* C17: when the first message parses to a payload whose service_url is
\* absent or empty, the connection is closed at once with close code 1008
\* (policy violation), and no upstream connection is attempted and no pump
\* is started, then or later.
C17_MissingServiceUrlClosesWithPolicyViolation ==
    (p_first.kind = "json" /\ p_first.service_url = "") =>
        /\ p_pc = "closed"
        /\ p_close.code = 1008
        /\ p_close.reason = "Service URL is required"
        /\ NoUpstreamAttempt

\* The payload carried a credential but no service_url; the connection was
\* closed with the close frame and nothing was attempted.
C17_Witness ==
    /\ p_first = InitPayload("", "tok")
    /\ p_pc = "closed"
    /\ p_close = MissingFieldClose
    /\ p_connects = 0

\* C19: in both relays every handshake failure (no first message within the
\* timeout, a first message that is not JSON, a missing required field)
\* closes the client's channel at once with an explicit reason sent to the
\* client, and the upstream channel is not opened.
C19_HandshakeFailureClosesWithReason ==
    /\ (\/ p_first.kind \in {"timeout", "not_json"}
        \/ p_first.kind = "json" /\ p_first.service_url = "")
       => /\ p_pc = "closed"
          /\ p_close # NoClose
          /\ p_close.reason # ""
          /\ NoUpstreamAttempt
    /\ (\/ n_first.kind \in {"timeout", "not_json"}
        \/ n_first.kind = "json" /\ (n_first.type # "init" \/ n_first.story = ""))
       => /\ n_pc = "closed"
          /\ n_close # NoClose
          /\ \/ n_close.reason # ""
             \/ \E i \in DOMAIN n_to_client : n_to_client[i].type = "error"
          /\ n_connects = 0
          /\ n_session = "none"

\* C20: when the client sent no credential and generate_gcp_token returned
\* none, the connection is closed with an authentication-failure close code
\* that differs from the code used for a missing service_url, and no upstream
\* connection is attempted; and generate_gcp_token is called only when the
\* client sent no credential.
C20_AuthFailureHasItsOwnCloseCode ==
    /\ (p_first.kind = "json" /\ p_first.service_url # ""
           /\ p_first.bearer_token = "" /\ p_gcp = "")
       => /\ p_pc = "closed"
          /\ p_close # NoClose
          /\ p_close.code # MissingFieldClose.code
          /\ NoUpstreamAttempt
    /\ p_token_calls > 0 => p_first.kind = "json" /\ p_first.bearer_token = ""
    /\ p_gcp # "unasked" => p_token_calls = 1

\* The first sequence is a prefix of the second.
IsPrefix(delivered, received) ==
    /\ Len(delivered) <= Len(received)
    /\ \A i \in DOMAIN delivered : delivered[i] = received[i]

\* The frames as the client must see them: text frames with the payloads
\* of the frames received, in their order.
AsText(received) == [i \in DOMAIN received |-> TextFrame(received[i].data)]

\* C31: in each direction the messages delivered are a prefix of the
\* messages received, in the same order and with the same payloads (so none
\* is duplicated, reordered or replayed), at most one message is held
\* between its receipt and its delivery, and every frame delivered to the
\* client is a text frame, a binary upstream frame included.
C31_DeliveredIsPrefixOfReceived ==
    /\ IsPrefix(p_to_upstream, p_from_client)
    /\ IsPrefix(p_to_client, AsText(p_from_upstream))
    /\ \A i \in DOMAIN p_to_upstream : p_to_upstream[i].kind = "text"
    /\ \A i \in DOMAIN p_to_client : p_to_client[i].kind = "text"
    /\ Len(p_from_client) - Len(p_to_upstream) <= 1
    /\ Len(p_from_upstream) - Len(p_to_client) <= 1

\* C31 witness: two different client messages were delivered upstream, and
\* a text frame and a binary frame of the upstream were both delivered to
\* the client.
C31_Witness ==
    /\ Len(p_to_upstream) = 2
    /\ p_to_upstream[1] # p_to_upstream[2]
    /\ Len(p_to_client) = 2
    /\ p_from_upstream[1].kind = "text"
    /\ p_from_upstream[2].kind = "bytes"

(***************************************************************************)
(* Narrator relay: narrator_ws_endpoint (/ws/narrator).                    *)
(***************************************************************************)
\* What the wait for the init message can produce (an absent field is "").
NarratorInitMsg(type, story) == [kind |-> "json", type |-> type, story |-> story]

NarratorFirstMessages ==
    { [kind |-> "timeout"], [kind |-> "disconnect"], [kind |-> "not_json"],
      NarratorInitMsg("init", "story"), NarratorInitMsg("init", ""),
      NarratorInitMsg("audio", "story") }

\* A browser message read by send_loop: type, and whether its payload field
\* is there and decodes (data for audio, text for text).
ClientMsg(type, payload_ok) == [kind |-> "json", type |-> type, payload_ok |-> payload_ok]

NarratorClientMessages ==
    { ClientMsg("audio", TRUE), ClientMsg("audio", FALSE),
      ClientMsg("text", TRUE), ClientMsg("text", FALSE),
      ClientMsg("ping", TRUE), [kind |-> "not_json"] }

\* A response of the live session: audio data, server_content and its fields.
Response(data, server_content, input_text, output_text, interrupted) ==
    [data |-> data, server_content |-> server_content, input_text |-> input_text,
     output_text |-> output_text, interrupted |-> interrupted]

NarratorResponses ==
    { Response(TRUE, FALSE, FALSE, FALSE, FALSE),
      Response(FALSE, TRUE, TRUE, FALSE, FALSE),
      Response(FALSE, TRUE, FALSE, TRUE, FALSE),
      Response(TRUE, TRUE, TRUE, TRUE, TRUE),
      Response(FALSE, TRUE, FALSE, FALSE, TRUE),
      Response(FALSE, FALSE, TRUE, TRUE, TRUE) }

ErrorRecord(text) == [type |-> "error", role |-> "none", text |-> text]

\* Mutant: the transcripts carry the role of the other speaker.
ResponseRecords_RolesSwapped(r) ==
    (IF r.data THEN <<[type |-> "audio", role |-> "none", text |-> "b64"]>> ELSE <<>>)
    \o (IF r.server_content /\ r.input_text
        THEN <<[type |-> "transcript", role |-> "model", text |-> "input"]>> ELSE <<>>)
    \o (IF r.server_content /\ r.output_text
        THEN <<[type |-> "transcript", role |-> "user", text |-> "output"]>> ELSE <<>>)
    \o (IF r.server_content /\ r.interrupted
        THEN <<[type |-> "interrupted", role |-> "none", text |-> "none"]>> ELSE <<>>)

\* The records recv_loop sends for one response, in order.
ResponseRecords(r) ==
    (IF r.data THEN <<[type |-> "audio", role |-> "none", text |-> "b64"]>> ELSE <<>>)
    \o (IF r.server_content /\ r.input_text
        THEN <<[type |-> "transcript", role |-> "user", text |-> "input"]>> ELSE <<>>)
    \o (IF r.server_content /\ r.output_text
        THEN <<[type |-> "transcript", role |-> "model", text |-> "output"]>> ELSE <<>>)
    \o (IF r.server_content /\ r.interrupted
        THEN <<[type |-> "interrupted", role |-> "none", text |-> "none"]>> ELSE <<>>)

\* Mutant: every message is forwarded as a turn, whatever its type.
ForwardedInputs_Unclassified(m) == <<[unit |-> "client_content_turn_complete"]>>

\* The inputs send_loop forwards for one message.
ForwardedInputs(m) ==
    CASE m.type = "audio" -> <<[unit |-> "realtime_input_audio"]>>
      [] m.type = "text" -> <<[unit |-> "client_content_turn_complete"]>>
      [] OTHER -> <<>>

\* Mutant: the handler goes on as soon as one loop has finished.
GatherReturns_FirstCompleted(send, recv) == send = "done" \/ recv = "done"

\* await asyncio.gather(send_loop(), recv_loop()) returns
GatherReturns(send, recv) == send = "done" /\ recv = "done"

\* The loops of the narrator that are running, other than `self`.
NarratorPumps(send, recv, self) ==
    ((IF send = "running" THEN {"send_loop"} ELSE {})
     \cup (IF recv = "running" THEN {"recv_loop"} ELSE {})) \ {self}

NarratorInit ==
    /\ PipelineIdle
    /\ TranscoderIdle
    /\ ProxyIdle
    /\ ClientsIdle
    /\ n_pc = "await_init"
    /\ n_end = "none"
    /\ n_close = NoClose
    /\ n_first = NoMsg
    /\ n_session = "none"
    /\ n_connects = 0
    /\ n_send = "none"
    /\ n_recv = "none"
    /\ n_client_gone = FALSE
    /\ n_upstream_gone = FALSE
    /\ n_from_client = <<>>
    /\ n_to_upstream = <<>>
    /\ n_from_upstream = <<>>
    /\ n_to_client = <<>>
    /\ n_acc = {}

\* await websocket.close(): no code and no reason are given, and the
\* framework's default is code 1000.
DefaultClose == Close(1000, "")

\* if msg.get("type") != "init" or not msg.get("story")
InitRejected(msg) == msg.type # "init" \/ msg.story = ""

\* 1. Wait for init message with story text
NarratorHandshake ==
    /\ n_pc = "await_init"
    /\ \E first \in NarratorFirstMessages :
         /\ n_first' = first
         /\ CASE first.kind = "timeout" ->
                   /\ n_to_client' = Append(n_to_client,
                                            ErrorRecord("Timeout waiting for init message."))
                   /\ n_close' = DefaultClose
                   /\ n_pc' = "closed"
                   /\ n_end' = "close"
                   /\ UNCHANGED n_client_gone
              [] first.kind \in {"disconnect", "not_json"} ->
                   \* WebSocketDisconnect or JSONDecodeError leaves the handler
                   /\ n_pc' = "closed"
                   /\ n_end' = "raise"
                   /\ n_client_gone' = (first.kind = "disconnect")
                   /\ UNCHANGED <<n_to_client, n_close>>
              [] OTHER ->
                   IF InitRejected(first)
                   THEN /\ n_to_client' = Append(n_to_client,
                                                 ErrorRecord("Expected init message with story text."))
                        /\ n_close' = DefaultClose
                        /\ n_pc' = "closed"
                        /\ n_end' = "close"
                        /\ UNCHANGED n_client_gone
                   ELSE /\ n_pc' = "connecting"
                        /\ UNCHANGED <<n_end, n_close, n_to_client, n_client_gone>>
    /\ n_acc' = n_acc \cup {Access("handler", "read", "client",
                                    NarratorPumps(n_send, n_recv, "handler"))}
                  \cup (IF n_to_client' # n_to_client
                        THEN {Access("handler", "write", "client",
                                     NarratorPumps(n_send, n_recv, "handler"))}
                        ELSE {})
    /\ UNCHANGED <<n_session, n_connects, n_send, n_recv, n_upstream_gone,
                   n_from_client, n_to_upstream, n_from_upstream, n_others>>

\* 2. Open Live session: both loops start, or connect raises and the error
\* is reported to the browser.
NarratorConnect ==
    /\ n_pc = "connecting"
    /\ n_connects' = n_connects + 1
    /\ \/ /\ n_session' = "open"
          /\ n_send' = "running"
          /\ n_recv' = "running"
          /\ n_pc' = "relaying"
          /\ UNCHANGED <<n_end, n_to_client>>
       \/ /\ n_pc' = "closed"
          /\ n_end' = "return"
          /\ n_to_client' = Append(n_to_client, ErrorRecord("str(e)"))
          /\ UNCHANGED <<n_session, n_send, n_recv>>
    /\ n_acc' = n_acc \cup (IF n_to_client' # n_to_client
                            THEN {Access("handler", "write", "client",
                                         NarratorPumps(n_send, n_recv, "handler"))}
                            ELSE {})
    /\ UNCHANGED <<n_close, n_first, n_client_gone, n_upstream_gone, n_from_client,
                   n_to_upstream, n_from_upstream, n_others>>

\* One pass of send_loop: read a browser message and forward it.
SendLoopStep ==
    /\ n_send = "running"
    /\ \/ /\ ~n_client_gone
          /\ Len(n_from_client) < MaxFrames
          /\ \E m \in NarratorClientMessages :
               /\ n_from_client' = Append(n_from_client, m)
               /\ IF m.kind = "not_json"
                  THEN \* json.loads raises
                       /\ n_send' = "done"
                       /\ UNCHANGED n_to_upstream
                  ELSE IF ForwardedInputs(m) = <<>>
                  THEN UNCHANGED <<n_send, n_to_upstream>>
                  ELSE IF ~m.payload_ok \/ n_upstream_gone
                  THEN \* KeyError, a base64 error, or the session's send raises
                       /\ n_send' = "done"
                       /\ UNCHANGED n_to_upstream
                  ELSE /\ n_to_upstream' = n_to_upstream \o ForwardedInputs(m)
                       /\ UNCHANGED n_send
          /\ UNCHANGED n_client_gone
       \/ \* WebSocketDisconnect
          /\ n_send' = "done"
          /\ n_client_gone' = TRUE
          /\ UNCHANGED <<n_from_client, n_to_upstream>>
    /\ n_acc' = n_acc \cup {Access("send_loop", "read", "client",
                                    NarratorPumps(n_send, n_recv, "send_loop"))}
                  \cup (IF n_to_upstream' # n_to_upstream
                        THEN {Access("send_loop", "write", "upstream",
                                     NarratorPumps(n_send, n_recv, "send_loop"))}
                        ELSE {})
    /\ UNCHANGED <<n_pc, n_end, n_close, n_first, n_session, n_connects, n_recv, n_upstream_gone,
                   n_from_upstream, n_to_client, n_others>>

\* One pass of recv_loop: read a response and send its records.
RecvLoopStep ==
    /\ n_recv = "running"
    /\ \/ /\ ~n_upstream_gone
          /\ Len(n_from_upstream) < MaxFrames
          /\ \E r \in NarratorResponses :
               /\ n_from_upstream' = Append(n_from_upstream, r)
               /\ IF n_client_gone /\ ResponseRecords(r) # <<>>
                  THEN \* websocket.send_text raises
                       /\ n_recv' = "done"
                       /\ UNCHANGED n_to_client
                  ELSE /\ n_to_client' = n_to_client \o ResponseRecords(r)
                       /\ UNCHANGED n_recv
          /\ UNCHANGED n_upstream_gone
       \/ \* session.receive() is exhausted
          /\ n_recv' = "done"
          /\ UNCHANGED <<n_upstream_gone, n_from_upstream, n_to_client>>
       \/ \* session.receive() raises
          /\ n_recv' = "done"
          /\ n_upstream_gone' = TRUE
          /\ UNCHANGED <<n_from_upstream, n_to_client>>
    /\ n_acc' = n_acc \cup {Access("recv_loop", "read", "upstream",
                                    NarratorPumps(n_send, n_recv, "recv_loop"))}
                  \cup (IF n_to_client' # n_to_client
                        THEN {Access("recv_loop", "write", "client",
                                     NarratorPumps(n_send, n_recv, "recv_loop"))}
                        ELSE {})
    /\ UNCHANGED <<n_pc, n_end, n_close, n_first, n_session, n_connects, n_send, n_client_gone,
                   n_from_client, n_to_upstream, n_others>>

\* gather returns and the handler leaves the `async with` of the session:
\* the session is closed; if closing it raises, the error is reported to the
\* browser (and a failure of that report is swallowed).
NarratorTeardown ==
    /\ n_pc = "relaying"
    /\ GatherReturns(n_send, n_recv)
    /\ n_session' = "closed"
    /\ n_pc' = "closed"
    /\ n_end' = "return"
    /\ \/ /\ UNCHANGED n_to_client
          /\ n_acc' = n_acc \cup {Access("handler", "write", "upstream",
                                          NarratorPumps(n_send, n_recv, "handler"))}
       \/ /\ n_to_client' = IF n_client_gone THEN n_to_client
                             ELSE Append(n_to_client, ErrorRecord("str(e)"))
          /\ n_acc' = n_acc \cup {Access("handler", "write", "upstream",
                                          NarratorPumps(n_send, n_recv, "handler")),
                                   Access("handler", "write", "client",
                                          NarratorPumps(n_send, n_recv, "handler"))}
    /\ UNCHANGED <<n_close, n_first, n_connects, n_send, n_recv, n_client_gone,
                   n_upstream_gone, n_from_client, n_to_upstream, n_from_upstream,
                   n_others>>

NarratorNext ==
    \/ NarratorHandshake
    \/ NarratorConnect
    \/ SendLoopStep
    \/ RecvLoopStep
    \/ NarratorTeardown

SpecNarrator == NarratorInit /\ [][NarratorNext]_vars

\* C4: as soon as either send_loop or recv_loop has finished, the teardown
\* (cancel the sibling, close the live session) can run, without waiting for
\* the sibling to finish on its own; and a closed relay never has a pump that
\* is still running.
C4_NarratorFirstCompletionWins ==
    /\ (n_pc = "relaying" /\ (n_send = "done" \/ n_recv = "done")) => ENABLED NarratorTeardown
    /\ n_pc = "closed" => n_send # "running" /\ n_recv # "running"

\* C18: when the first message of the browser is not of type init, or its
\* story is absent or empty, the connection is closed at once with close
\* code 1008 (policy violation) and the live session is never opened.
C18_BadInitClosesWithPolicyViolation ==
    (n_first.kind = "json" /\ (n_first.type # "init" \/ n_first.story = "")) =>
        /\ n_pc = "closed"
        /\ n_close.code = 1008
        /\ n_connects = 0
        /\ n_session = "none"

\* What a response holds: the transcriptions and the interrupted flag are
\* fields of its server_content, and are not there without it.
HasAudio(r) == r.data

HasInputText(r) == r.server_content /\ r.input_text

HasOutputText(r) == r.server_content /\ r.output_text

IsInterrupted(r) == r.server_content /\ r.interrupted

\* The records of one kind and role in a sequence of records.
RecordsOf(records, type, role) ==
    SelectSeq(records, LAMBDA rec : rec.type = type /\ rec.role = role)

\* The records a response calls for: one of each kind it has cause for.
Demultiplexed(r, records) ==
    /\ Len(records) = Len(RecordsOf(records, "audio", "none"))
                        + Len(RecordsOf(records, "transcript", "user"))
                        + Len(RecordsOf(records, "transcript", "model"))
                        + Len(RecordsOf(records, "interrupted", "none"))
    /\ Len(RecordsOf(records, "audio", "none")) = IF HasAudio(r) THEN 1 ELSE 0
    /\ Len(RecordsOf(records, "transcript", "user")) = IF HasInputText(r) THEN 1 ELSE 0
    /\ Len(RecordsOf(records, "transcript", "model")) = IF HasOutputText(r) THEN 1 ELSE 0
    /\ Len(RecordsOf(records, "interrupted", "none")) = IF IsInterrupted(r) THEN 1 ELSE 0
    /\ \A i \in DOMAIN records :
         /\ (records[i].type = "transcript" /\ records[i].role = "user") =>
                records[i].text = "input"
         /\ (records[i].type = "transcript" /\ records[i].role = "model") =>
                records[i].text = "output"
         /\ records[i].type = "interrupted" => records[i].text = "none"

\* The records sent while relaying: all but the handler's error records.
RelayedRecords == SelectSeq(n_to_client, LAMBDA rec : rec.type # "error")

\* The records can be cut into one run per response, each run what its
\* response calls for.
RECURSIVE CutsInto(_, _)
CutsInto(records, responses) ==
    IF responses = <<>> THEN records = <<>>
    ELSE \E n \in 0..Len(records) :
           /\ Demultiplexed(responses[1], SubSeq(records, 1, n))
           /\ CutsInto(SubSeq(records, n + 1, Len(records)), Tail(responses))

RawAudioUnit == [unit |-> "realtime_input_audio"]

TurnCompletionRequest == [unit |-> "client_content_turn_complete"]

\* send_loop has just read the message m from the browser.
JustRead(m) == n_from_client' = Append(n_from_client, m)

Forwarded(unit) == n_to_upstream' = Append(n_to_upstream, unit) /\ n_send' = "running"

Dropped == n_to_upstream' = n_to_upstream /\ n_send' = "running"

EndsPump == n_to_upstream' = n_to_upstream /\ n_send' = "done"

Absent == [t |-> "absent"]

Field(key, v) == IF v = Absent THEN <<>> ELSE << <<key, v>> >>

\* Values of a direct field under the first spelling.
DirectChoices == <<Absent, Str(""), Str("D")>>

\* Values of a direct field under the second spelling.
CamelChoices == <<Absent, Str("E")>>

\* Values of the first grounding-metadata field: absent, null, a string, an
\* empty mapping, a mapping without markup, with empty markup under one
\* spelling and markup under the other, with markup, and with markup one
\* level deeper.
GroundingChoices ==
    << Absent, None, Str("gm"), Dict(<<>>),
       Dict(<< <<"webSearchQueries", Str("q")>> >>),
       Dict(<< <<"rendered_content", Str("")>>, <<"renderedContent", Str("G")>> >>),
       Dict(<< <<"rendered_content", Str("G")>> >>),
       Dict(<< <<"searchEntryPoint", Dict(<< <<"renderedContent", Str("G")>> >>)>> >>) >>

\* Values of the second grounding-metadata field.
CamelGroundingChoices == <<Absent, Dict(<< <<"renderedContent", Str("H")>> >>)>>

\* Values of another field.
OtherChoices ==
    << Absent, Str("text"), Dict(<< <<"stateDelta", Dict(<<>>)>> >>),
       Dict(<< <<"stateDelta", Dict(<< <<"rendered_content", Str("N")>> >>)>> >>) >>

\* The JSON of an event, without its author and content: its keys in the
\* order of the document, the other field before or after the grounding
\* metadata.
Fields(d1, d2, g1, g2, o, first) ==
    Dict(Field("rendered_content", d1) \o Field("renderedContent", d2)
         \o (IF first THEN Field("actions", o) ELSE <<>>)
         \o Field("grounding_metadata", g1) \o Field("groundingMetadata", g2)
         \o (IF first THEN <<>> ELSE Field("actions", o)))

ExtractInit == TranscoderInit /\ ~response_is_error

\* The source yields one event and the loop body runs on it.
ExtractEvent ==
    /\ t_pc = "streaming"
    /\ t_events = <<>>
    /\ \E d1 \in DOMAIN DirectChoices, d2 \in DOMAIN CamelChoices,
          g1 \in DOMAIN GroundingChoices, g2 \in DOMAIN CamelGroundingChoices,
          o \in DOMAIN OtherChoices, first \in BOOLEAN :
         Transcode(SseEvent("None", <<>>,
                            Fields(DirectChoices[d1], CamelChoices[d2], GroundingChoices[g1],
                                   CamelGroundingChoices[g2], OtherChoices[o], first)))
    /\ UNCHANGED <<t_pc, response_is_error, t_others>>

ExtractNext == ExtractEvent \/ StreamEnd

SpecExtract == ExtractInit /\ [][ExtractNext]_vars

Spellings == {"rendered_content", "renderedContent"}

GroundingSpellings == {"grounding_metadata", "groundingMetadata"}

\* The non-empty values a mapping holds under either spelling.
Holds(m) == {v \in {Get(m.v, k) : k \in Spellings} : Truthy(v)}

\* The non-empty values nested one level under a grounding-metadata field.
GroundingValues(m) ==
    UNION {Holds(Get(m.v, g)) : g \in {k \in GroundingSpellings : IsDict(Get(m.v, k))}}

\* The mappings reachable from m through mapping-valued fields, m included.
RECURSIVE Reachable(_)
Reachable(m) ==
    {m} \cup UNION {Reachable(m.v[i][2]) : i \in {j \in DOMAIN m.v : IsDict(m.v[j][2])}}

ReachableValues(m) == UNION {Holds(r) : r \in Reachable(m)}

\* C29: on one event, a non-empty direct field is what the extraction
\* returns; else a non-empty value one level under a grounding-metadata
\* field is; else a value of a reachable nested mapping is; and the result is
\* non-empty exactly when some reachable mapping holds a non-empty value, and
\* nothing (None) otherwise.
C29_ExtractionPrecedence ==
    t_events # <<>> =>
        LET data == t_events[1].fields
            rc == rendered_content
        IN /\ Holds(data) # {} => rc \in Holds(data)
           /\ (Holds(data) = {} /\ GroundingValues(data) # {}) => rc \in GroundingValues(data)
           /\ ReachableValues(data) # {} => rc \in ReachableValues(data)
           /\ ReachableValues(data) = {} => rc = None

(***************************************************************************)
(* Relay connections, both variants: one connection of /ws/proxy or one of *)
(* /ws/narrator.                                                           *)
(***************************************************************************)

RelayInit == ProxyInit \/ NarratorInit

RelayNext == ProxyNext \/ NarratorNext

SpecRelay == RelayInit /\ [][RelayNext]_vars

\* The position of a connection in AwaitInit, Connected, Relaying, Closed.
Rank(pc) ==
    CASE pc = "await_init" -> 1
      [] pc = "connecting" -> 2
      [] pc = "relaying" -> 3
      [] pc = "closed" -> 4
      [] OTHER -> 0

\* C25: a relay connection only moves forward through AwaitInit, Connected,
\* Relaying, Closed; nothing happens once it is Closed and the upstream is
\* connected to at most once; it leaves Relaying only when a pump has
\* finished, and while both pumps run (however long the peers stay silent)
\* the teardown cannot run.
C25_RelayOnlyMovesForward ==
    /\ [][/\ Rank(p_pc') >= Rank(p_pc)
          /\ Rank(n_pc') >= Rank(n_pc)
          /\ p_pc = "closed" => UNCHANGED p_vars
          /\ n_pc = "closed" => UNCHANGED n_vars
          /\ (p_pc = "relaying" /\ p_pc' # "relaying") =>
                 p_pc' = "closed" /\ (p_c2s = "done" \/ p_s2c = "done")
          /\ (n_pc = "relaying" /\ n_pc' # "relaying") =>
                 n_pc' = "closed" /\ (n_send = "done" \/ n_recv = "done")]_vars
    /\ [](/\ p_connects <= 1
          /\ n_connects <= 1
          /\ (p_pc = "relaying" /\ p_c2s = "running" /\ p_s2c = "running") =>
                 ~ENABLED ProxyTeardown
          /\ (n_pc = "relaying" /\ n_send = "running" /\ n_recv = "running") =>
                 ~ENABLED NarratorTeardown)

\* C25 witness: a proxy connection that went through all four states: it
\* connected once, relayed frames both ways and closed after the upstream
\* pump finished.
C25_Witness ==
    /\ p_pc = "closed"
    /\ p_connects = 1
    /\ p_s2c = "done"
    /\ p_c2s = "cancelled"
    /\ p_to_upstream # <<>>
    /\ p_to_client # <<>>

PumpTasks == {"client_to_server", "server_to_client", "send_loop", "recv_loop"}

\* No two tasks did the same operation on the same channel while one was
\* running beside the other.
Exclusive(acc) ==
    \A a, b \in acc :
        (a.task # b.task /\ a.op = b.op /\ a.chan = b.chan) =>
            a.task \notin b.beside /\ b.task \notin a.beside

\* The two pumps never did the same operation on the same channel.
Disjoint(acc) ==
    \A a, b \in acc :
        (a.task \in PumpTasks /\ b.task \in PumpTasks /\ a.task # b.task) =>
            <<a.op, a.chan>> # <<b.op, b.chan>>

\* The handler touched a channel only while no pump was running.
HandlerAlone(acc) == \A a \in acc : a.task = "handler" => a.beside = {}

\* C30: in both relays the two pumps exist exactly from Relaying on, they
\* never do the same operation (read or write) on the same channel, and no
\* task reads from or writes to a channel while another running task does the
\* same on it: the handler, with its error reports to the client and its
\* closing of the upstream, acts only while no pump is running.
C30_PumpsTouchDisjointResources ==
    /\ (p_c2s # "none" /\ p_s2c # "none") <=> p_pc \in {"relaying", "closed"} /\ p_upstream # "none"
    /\ (p_c2s # "none" \/ p_s2c # "none") => (p_c2s # "none" /\ p_s2c # "none")
    /\ (n_send # "none" /\ n_recv # "none") <=> n_pc \in {"relaying", "closed"} /\ n_session # "none"
    /\ (n_send # "none" \/ n_recv # "none") => (n_send # "none" /\ n_recv # "none")
    /\ Exclusive(p_acc) /\ Disjoint(p_acc) /\ HandlerAlone(p_acc)
    /\ Exclusive(n_acc) /\ Disjoint(n_acc) /\ HandlerAlone(n_acc)

\* C30 witness: a narrator connection in which each loop read and wrote
\* while the other was running, and the handler reported an error to the
\* browser after both had finished.
C30_Witness ==
    /\ n_pc = "closed"
    /\ Access("send_loop", "write", "upstream", {"recv_loop"}) \in n_acc
    /\ Access("recv_loop", "write", "client", {"send_loop"}) \in n_acc
    /\ Access("handler", "write", "upstream", {}) \in n_acc
    /\ n_to_client[Len(n_to_client)].type = "error"

(***************************************************************************)
(* Client cache: get_client and the helpers that call it while serving     *)
(* concurrent chat_stream requests on one event loop.                      *)
(***************************************************************************)

Origins == {"origin_a", "origin_b"}

\* The helper chat_stream may call first; each helper begins with
\* `await get_client(origin)`.
FirstHelpers == {"list_agents", "get_session", "create_session"}

\* The helpers chat_stream may call after the given one has returned.
NextHelpers(fn) ==
    CASE fn = "list_agents" -> {"get_session", "create_session"}
      [] fn = "get_session" -> {"create_session", "query_adk_sever"}
      [] fn = "create_session" -> {"query_adk_sever"}
      [] OTHER -> {}

\* create_authenticated_client returns a new client object on every call.
NewHandle(made) == Len(made) + 1

\* Mutant: the cache entry is overwritten on every call.
StoreClient_Always(cl, origin, handle) ==
    [o \in DOMAIN cl \cup {origin} |-> IF o = origin THEN handle ELSE cl[o]]

\* `if agent_server_origin not in clients: clients[agent_server_origin] = ...`
StoreClient(cl, origin, handle) ==
    IF origin \in DOMAIN cl
    THEN cl
    ELSE [o \in DOMAIN cl \cup {origin} |-> IF o = origin THEN handle ELSE cl[o]]

ClientsInit ==
    /\ PipelineIdle
    /\ TranscoderIdle
    /\ ProxyIdle
    /\ NarratorIdle
    /\ ClientsIdle

\* A request arrives and chat_stream enters its first helper.
ChatStream(r) ==
    /\ c_req[r].fn = "idle"
    /\ \E o \in Origins, fn \in FirstHelpers :
         c_req' = [c_req EXCEPT ![r] = [fn |-> fn, at |-> "get_client", origin |-> o,
                                        handles |-> {}]]
    /\ UNCHANGED <<clients, created, c_others>>

\* The helper's `await get_client(origin)`: the coroutine has no suspension
\* point, so the lookup, the creation and the store are one step of the loop.
get_client(r) ==
    /\ c_req[r].at = "get_client"
    /\ LET origin == c_req[r].origin
           cl == StoreClient(clients, origin, NewHandle(created))
       IN /\ clients' = cl
          /\ created' = IF cl = clients THEN created ELSE Append(created, origin)
          /\ c_req' = [c_req EXCEPT ![r].at = "http",
                                    ![r].handles = @ \cup {cl[origin]}]
    /\ UNCHANGED c_others

\* The helper's HTTP exchange completes; chat_stream goes on to its next
\* helper, or the request ends (the stream is exhausted or the call raised).
HelperReturns(r) ==
    /\ c_req[r].at = "http"
    /\ \/ \E fn \in NextHelpers(c_req[r].fn) :
            c_req' = [c_req EXCEPT ![r].fn = fn, ![r].at = "get_client"]
       \/ c_req' = [c_req EXCEPT ![r].fn = "done", ![r].at = "none"]
    /\ UNCHANGED <<clients, created, c_others>>

ClientsNext == \E r \in Requests : ChatStream(r) \/ get_client(r) \/ HelperReturns(r)

SpecClients == ClientsInit /\ [][ClientsNext]_vars

(***************************************************************************)
(* Client cache properties.                                                *)
(***************************************************************************)

CreationsFor(o) == Cardinality({i \in 1..Len(created) : created[i] = o})

HandlesFor(o) == UNION {c_req[r].handles : r \in {q \in Requests : c_req[q].origin = o}}

\* C21: under every interleaving of the requests' get_client calls, a client
\* is created at most once per origin, every caller for an origin receives
\* the same handle (the one the cache holds), and a stored entry is never
\* replaced or removed.
C21_OneClientPerOrigin ==
    /\ [](\A o \in Origins :
            /\ CreationsFor(o) <= 1
            /\ Cardinality(HandlesFor(o)) <= 1
            /\ HandlesFor(o) # {} => o \in DOMAIN clients /\ HandlesFor(o) = {clients[o]})
    /\ [][\A o \in DOMAIN clients : o \in DOMAIN clients' /\ clients'[o] = clients[o]]_vars

\* C21 witness: two requests for one origin, between whose calls another
\* request created the client of the other origin, hold that origin's handle.
C21_Witness ==
    \E r1, r2 \in Requests :
        /\ r1 # r2
        /\ c_req[r1].origin = c_req[r2].origin
        /\ c_req[r1].handles # {}
        /\ c_req[r2].handles # {}
        /\ c_req[r1].fn # c_req[r2].fn
        /\ Len(created) = 2
        /\ created[2] # c_req[r1].origin

====
